---- MODULE Spec2Model ----
(***************************************************************************)
(* A model of the multiprocessor thread library: cpu.cpp (guard, CPU       *)
(* dispatch, idle/IPI protocol), thread.cpp (create, yield, join, the      *)
(* thread_execution trampoline), mutex.cpp and cv.cpp.                     *)
(*                                                                         *)
(* Every TCB (user thread or per-CPU idle TCB) is a context with a saved   *)
(* position pc[x]; CPU c executes the context curr[c].  A step of a CPU is *)
(* one piece of library code between two points where another CPU could    *)
(* observe a difference: the two halves of a kernel_guard constructor and  *)
(* destructor are separate steps, and the code run under the guard is one  *)
(* step per operation (cv::wait is three steps under the one guard hold).  *)
(* A TCB's id is represented by the TCB's index: ids are unique, and the   *)
(* code only compares them for equality.                                   *)
(***************************************************************************)
EXTENDS Integers, Sequences, FiniteSets, TLC

NumCPUs == 2
MaxThreads == 3
NumMutexes == 1
NumCvs == 1
\* Increments of the shared counter the application starts.
MaxIncrements == 2

CPUs == 1..NumCPUs
Threads == 1..MaxThreads
Mutexes == 1..NumMutexes
Cvs == 1..NumCvs
\* The cv objects of the program: those any application thread may use, and
\* one more that only the producer/consumer application uses.
CvObjects == 1..(NumCvs + 1)

\* The CPU that cpu::boot hands the initial function to.
BootCPU == 1
\* The first user thread (created by the boot CPU's constructor).
FirstThread == 1
\* nullptr in a current-thread slot.
NoTCB == 0
\* mutex::mutex() : thread_holding_lock(-1)
NoOwner == -1
\* loaded[t] when t is not in the middle of an increment.
NoLoad == -1

\* cpu::suspended_thread of CPU c: its idle TCB.
SuspendedThread(c) == MaxThreads + c
IdleTCBs == {SuspendedThread(c) : c \in CPUs}
TCBs == Threads \cup IdleTCBs

VARIABLES
    guard,              \* cpu::guard
    ints,               \* ints[c]: interrupts are enabled on CPU c
    booted,             \* cpu::booted
    cpu_pc,             \* position of CPU c in its constructor: "boot", "ctor", "run"
    curr,               \* cpu::curr_thread of each CPU
    ipi,                \* ipi[c]: an IPI was sent to c and not yet delivered
    sleeping_cpus,      \* cpu::sleeping_cpus
    ready_threads,      \* cpu::ready_threads
    finished_threads,   \* cpu::finished_threads
    status,             \* TCB::status ("none": TCB not constructed yet)
    join_q,             \* TCB::join_q
    pc,                 \* where the context of each TCB stands
    op,                 \* the library call a thread is in, with its arguments
    mfree,              \* mutex::free
    mowner,             \* mutex::thread_holding_lock
    mwaiting,           \* mutex::waiting_threads
    cvwaiting,          \* cv::waiting_threads
    failed,             \* "" or the first assertion of the library that failed
    held,               \* held[t]: mutexes t holds as the application sees it
    border,             \* border[c]: threads woken by broadcast on c, not yet owning again
    counter,            \* a shared counter of the application
    loaded,             \* loaded[t]: the value t read from counter and has yet to store
    increments,         \* the number of increments of counter the application completed
    apc,                \* apc[t]: where thread t stands in its program ("any": no program)
    buffer,             \* the bounded buffer of the producer/consumer application
    produced,           \* the number of items the producer has put into the buffer
    consumed            \* the items the consumer has taken out of the buffer, in order

vars == <<guard, ints, booted, cpu_pc, curr, ipi, sleeping_cpus, ready_threads,
          finished_threads, status, join_q, pc, op, mfree, mowner, mwaiting,
          cvwaiting, failed, held, border, counter, loaded, increments,
          apc, buffer, produced, consumed>>

Range(s) == {s[i] : i \in 1..Len(s)}

RECURSIVE Without(_, _)
Without(s, x) ==
    IF s = <<>> THEN <<>>
    ELSE IF Head(s) = x THEN Without(Tail(s), x)
    ELSE <<Head(s)>> \o Without(Tail(s), x)

NoOp == [kind |-> "none", m |-> 0, c |-> 0, u |-> 0]

\* Positions at which the CPU running the context holds the guard.
GuardedPcs == {"fresh", "relock", "w2", "w3", "gnt", "susp", "ysw", "rel", "throw",
               "ih_top", "ih_rel", "ipi_body"}

HoldsGuard(c) ==
    \/ cpu_pc[c] = "ctor"
    \/ curr[c] # NoTCB /\ pc[curr[c]] \in GuardedPcs

\* The scheduler state that push_to_queue, fetch_cpu and the dispatch paths update.
Kernel == [status |-> status, ready |-> ready_threads, sleeping |-> sleeping_cpus,
           ipi |-> ipi, failed |-> failed]

Commit(K) ==
    /\ status' = K.status
    /\ ready_threads' = K.ready
    /\ sleeping_cpus' = K.sleeping
    /\ ipi' = K.ipi
    /\ failed' = K.failed

\* assert(cond): the first failing assertion is recorded and halts the program.
Check(f, cond, name) == IF f = "" /\ ~cond THEN name ELSE f

\* The library and the counter application before cpu::boot.
LibraryInit ==
    /\ guard = FALSE
    /\ ints = [c \in CPUs |-> FALSE]
    /\ booted = FALSE
    /\ cpu_pc = [c \in CPUs |-> "boot"]
    /\ curr = [c \in CPUs |-> NoTCB]
    /\ ipi = [c \in CPUs |-> FALSE]
    /\ sleeping_cpus = <<>>
    /\ ready_threads = <<>>
    /\ finished_threads = <<>>
    /\ status = [x \in TCBs |-> "none"]
    /\ join_q = [t \in Threads |-> <<>>]
    /\ pc = [x \in TCBs |-> "none"]
    /\ op = [t \in Threads |-> NoOp]
    /\ mfree = [m \in Mutexes |-> TRUE]
    /\ mowner = [m \in Mutexes |-> NoOwner]
    /\ mwaiting = [m \in Mutexes |-> <<>>]
    /\ cvwaiting = [c \in CvObjects |-> <<>>]
    /\ failed = ""
    /\ held = [t \in Threads |-> {}]
    /\ border = [c \in CvObjects |-> <<>>]
    /\ counter = 0
    /\ loaded = [t \in Threads |-> NoLoad]
    /\ increments = 0
    /\ buffer = <<>>
    /\ produced = 0
    /\ consumed = <<>>

\* A thread with no program makes any call at any time.
NoProgram == "any"

Init ==
    /\ LibraryInit
    /\ apc = [t \in Threads |-> NoProgram]

(***************************************************************************)
(* cpu.cpp: the ready queue, the idle-CPU registry and the dispatch paths  *)
(***************************************************************************)

\* A fetch_cpu that never wakes a CPU.
FetchCpuNone(K, self) == K

\* A fetch_cpu that sends the IPI and leaves the CPU on the idle-CPU queue.
FetchCpuKeepsHead(K, self) ==
    IF K.sleeping = <<>> THEN K
    ELSE [K EXCEPT !.ipi[Head(K.sleeping)] = TRUE]

\* cpu::fetch_cpu, run by CPU self: wake the head of the idle-CPU queue.
FetchCpu(K, self) ==
    IF K.sleeping = <<>> THEN K
    ELSE LET next_cpu == Head(K.sleeping)
             f1 == Check(K.failed, next_cpu # self, "fetch_cpu: next_cpu is self")
             f2 == Check(f1, curr[next_cpu] = SuspendedThread(next_cpu),
                         "fetch_cpu: next_cpu not on its idle TCB")
             f3 == Check(f2, curr[next_cpu] # SuspendedThread(self),
                         "fetch_cpu: next_cpu on the idle TCB of self")
         IN  [K EXCEPT !.sleeping = Tail(@),
                       !.ipi[next_cpu] = TRUE,
                       !.failed = f3]

\* A push_to_queue that enqueues the thread without marking it READY.
PushKeepsStatus(K, t, self) ==
    FetchCpu([K EXCEPT !.ready = Append(@, t)], self)

\* A push_to_queue that puts the thread at the head of the ready queue.
PushToFront(K, t, self) ==
    FetchCpu([K EXCEPT !.status[t] = "READY", !.ready = <<t>> \o @], self)

\* cpu::push_to_queue(thread), run by CPU self.
PushToQueue(K, t, self) ==
    LET f1 == Check(K.failed, K.status[t] # "FINISHED", "push_to_queue: FINISHED thread")
        f2 == Check(f1, K.status[t] # "READY", "push_to_queue: thread already READY")
        f3 == Check(f2, K.status[t] \in {"RUNNING", "BLOCKED", "Null"},
                    "push_to_queue: bad status")
    IN  FetchCpu([K EXCEPT !.status[t] = "READY",
                           !.ready = Append(@, t),
                           !.failed = f3], self)

\* A wake-all loop that drops the waiters without waking them.
PushNone(K, q, self) == K

\* A wake-all loop that takes the waiters from the back of the queue.
RECURSIVE PushAllFromBack(_, _, _)
PushAllFromBack(K, q, self) ==
    IF q = <<>> THEN K
    ELSE PushAllFromBack(PushToQueue(K, q[Len(q)], self), SubSeq(q, 1, Len(q) - 1), self)

\* The loops `while (!q.empty()) { push_to_queue(q.front()); q.pop(); }`
\* of cv::broadcast and thread_execution.
RECURSIVE PushAll(_, _, _)
PushAll(K, q, self) ==
    IF q = <<>> THEN K ELSE PushAll(PushToQueue(K, Head(q), self), Tail(q), self)

\* cpu::clear_finished_threads(curr): its two assertions (the reset() acts on a
\* copy of each shared_ptr, so the list itself is left as it is).
ClearFinishedThreads(f, t) ==
    LET f1 == Check(f, \A i \in 1..Len(finished_threads) :
                          status[finished_threads[i]] = "FINISHED",
                    "clear_finished_threads: entry not FINISHED")
    IN  Check(f1, \A i \in 1..Len(finished_threads) : finished_threads[i] # t,
              "clear_finished_threads: entry is the current thread")

\* A get_next_thread that suspends the CPU whether or not a thread is ready.
GetNextThreadSuspends(c, t, K) ==
    /\ curr' = [curr EXCEPT ![c] = SuspendedThread(c)]
    /\ pc' = [pc EXCEPT ![t] = "susp"]
    /\ Commit(K)

\* A get_next_thread that switches to the head of the ready queue without
\* marking it RUNNING.
GetNextThreadLeavesReady(c, t, K) ==
    IF K.ready # <<>>
    THEN /\ curr' = [curr EXCEPT ![c] = Head(K.ready)]
         /\ pc' = [pc EXCEPT ![t] = "gnt"]
         /\ Commit([K EXCEPT !.ready = Tail(@)])
    ELSE /\ curr' = [curr EXCEPT ![c] = SuspendedThread(c)]
         /\ pc' = [pc EXCEPT ![t] = "susp"]
         /\ Commit(K)

\* cpu::get_next_thread, called by thread t on CPU c with scheduler state K:
\* switch to the head of the ready queue, or suspend_cpu when there is none.
\* The context of t is saved inside get_next_thread ("gnt") or inside
\* suspend_cpu ("susp").
GetNextThread(c, t, K) ==
    IF K.ready # <<>>
    THEN LET n == Head(K.ready)
             f1 == Check(K.failed, K.status[n] = "READY", "get_next_thread: next not READY")
             f2 == Check(f1, K.status[t] = "BLOCKED", "get_next_thread: prev not BLOCKED")
         IN  /\ curr' = [curr EXCEPT ![c] = n]
             /\ pc' = [pc EXCEPT ![t] = "gnt"]
             /\ Commit([K EXCEPT !.ready = Tail(@), !.status[n] = "RUNNING", !.failed = f2])
    ELSE /\ curr' = [curr EXCEPT ![c] = SuspendedThread(c)]
         /\ pc' = [pc EXCEPT ![t] = "susp"]
         /\ Commit(K)

\* cpu::guard_acquire in the cpu constructor (interrupts are disabled at boot).
BootAcquire(c) ==
    /\ failed = ""
    /\ cpu_pc[c] = "boot"
    /\ guard = FALSE
    /\ guard' = TRUE
    /\ cpu_pc' = [cpu_pc EXCEPT ![c] = "ctor"]
    /\ UNCHANGED <<counter, loaded, increments, apc, buffer, produced, consumed>>
    /\ UNCHANGED <<ints, booted, curr, ipi, sleeping_cpus, ready_threads,
                   finished_threads, status, join_q, pc, op, mfree, mowner,
                   mwaiting, cvwaiting, failed, held, border>>

\* cpu::cpu(func, arg) under the guard: the idle TCB, the first thread on the
\* boot CPU, then cpu::begin_process.
BootBody(c) ==
    /\ failed = ""
    /\ cpu_pc[c] = "ctor"
    /\ booted' = TRUE
    /\ cpu_pc' = [cpu_pc EXCEPT ![c] = "run"]
    /\ LET idle == SuspendedThread(c)
           K0 == [Kernel EXCEPT !.status[idle] = "Null"]
           K1 == IF c = BootCPU
                 THEN PushToQueue([K0 EXCEPT !.status[FirstThread] = "Null"],
                                  FirstThread, c)
                 ELSE K0
           pc1 == IF c = BootCPU
                  THEN [pc EXCEPT ![idle] = "ih_top", ![FirstThread] = "fresh"]
                  ELSE [pc EXCEPT ![idle] = "ih_top"]
       IN  /\ pc' = pc1
           /\ IF K1.ready # <<>>
              THEN LET n == Head(K1.ready)
                   IN  /\ curr' = [curr EXCEPT ![c] = n]
                       /\ Commit([K1 EXCEPT !.ready = Tail(@), !.status[n] = "RUNNING"])
              ELSE /\ curr' = [curr EXCEPT ![c] = idle]
                   /\ Commit(K1)
    /\ UNCHANGED <<counter, loaded, increments, apc, buffer, produced, consumed>>
    /\ UNCHANGED <<guard, ints, finished_threads, join_q, op, mfree, mowner,
                   mwaiting, cvwaiting, held, border>>

\* A suspend_helper that does not register the CPU on the idle-CPU queue.
IdleSkipsRegistry(c) ==
    /\ failed = ""
    /\ curr[c] = SuspendedThread(c)
    /\ pc[curr[c]] = "ih_top"
    /\ pc' = [pc EXCEPT ![curr[c]] = "ih_rel"]
    /\ UNCHANGED <<guard, ints, booted, cpu_pc, curr, ipi, ready_threads, sleeping_cpus,
                   finished_threads, status, join_q, op, mfree, mowner, mwaiting,
                   cvwaiting, failed, held, border, counter, loaded, increments,
                   apc, buffer, produced, consumed>>

\* cpu::suspend_helper, top of the loop: register on the idle-CPU queue.
IdlePush(c) ==
    /\ failed = ""
    /\ curr[c] = SuspendedThread(c)
    /\ pc[curr[c]] = "ih_top"
    /\ sleeping_cpus' = Append(sleeping_cpus, c)
    /\ pc' = [pc EXCEPT ![curr[c]] = "ih_rel"]
    /\ UNCHANGED <<counter, loaded, increments, apc, buffer, produced, consumed>>
    /\ UNCHANGED <<guard, ints, booted, cpu_pc, curr, ipi, ready_threads,
                   finished_threads, status, join_q, op, mfree, mowner, mwaiting,
                   cvwaiting, failed, held, border>>

\* A suspend_helper that suspends without guard_release.
IdleKeepsGuard(c) ==
    /\ failed = ""
    /\ curr[c] = SuspendedThread(c)
    /\ pc[curr[c]] = "ih_rel"
    /\ pc' = [pc EXCEPT ![curr[c]] = "ih_susp"]
    /\ UNCHANGED <<guard, ints, booted, cpu_pc, curr, ipi, sleeping_cpus, ready_threads,
                   finished_threads, status, join_q, op, mfree, mowner, mwaiting,
                   cvwaiting, failed, held, border, counter, loaded, increments,
                   apc, buffer, produced, consumed>>

\* cpu::suspend_helper: guard_release.
IdleRelease(c) ==
    /\ failed = ""
    /\ curr[c] = SuspendedThread(c)
    /\ pc[curr[c]] = "ih_rel"
    /\ guard' = FALSE
    /\ pc' = [pc EXCEPT ![curr[c]] = "ih_susp"]
    /\ UNCHANGED <<counter, loaded, increments, apc, buffer, produced, consumed>>
    /\ UNCHANGED <<ints, booted, cpu_pc, curr, ipi, sleeping_cpus, ready_threads,
                   finished_threads, status, join_q, op, mfree, mowner, mwaiting,
                   cvwaiting, failed, held, border>>

\* cpu::suspend_helper: interrupt_enable_suspend.
IdleSuspend(c) ==
    /\ failed = ""
    /\ curr[c] = SuspendedThread(c)
    /\ pc[curr[c]] = "ih_susp"
    /\ ints' = [ints EXCEPT ![c] = TRUE]
    /\ pc' = [pc EXCEPT ![curr[c]] = "asleep"]
    /\ UNCHANGED <<counter, loaded, increments, apc, buffer, produced, consumed>>
    /\ UNCHANGED <<guard, booted, cpu_pc, curr, ipi, sleeping_cpus, ready_threads,
                   finished_threads, status, join_q, op, mfree, mowner, mwaiting,
                   cvwaiting, failed, held, border>>

\* Delivery of a pending IPI to a suspended CPU; cpu::ipi_handler starts with
\* interrupt_disable.
IpiDeliver(c) ==
    /\ failed = ""
    /\ curr[c] = SuspendedThread(c)
    /\ pc[curr[c]] = "asleep"
    /\ ints[c]
    /\ ipi[c]
    /\ ipi' = [ipi EXCEPT ![c] = FALSE]
    /\ ints' = [ints EXCEPT ![c] = FALSE]
    /\ pc' = [pc EXCEPT ![curr[c]] = "ipi_acq"]
    /\ UNCHANGED <<counter, loaded, increments, apc, buffer, produced, consumed>>
    /\ UNCHANGED <<guard, booted, cpu_pc, curr, sleeping_cpus, ready_threads,
                   finished_threads, status, join_q, op, mfree, mowner, mwaiting,
                   cvwaiting, failed, held, border>>

\* An ipi_handler that goes on without guard_acquire.
IpiSkipsGuard(c) ==
    /\ failed = ""
    /\ curr[c] = SuspendedThread(c)
    /\ pc[curr[c]] = "ipi_acq"
    /\ pc' = [pc EXCEPT ![curr[c]] = "ipi_body"]
    /\ UNCHANGED <<guard, ints, booted, cpu_pc, curr, ipi, sleeping_cpus, ready_threads,
                   finished_threads, status, join_q, op, mfree, mowner, mwaiting,
                   cvwaiting, failed, held, border, counter, loaded, increments,
                   apc, buffer, produced, consumed>>

\* cpu::ipi_handler: guard_acquire.
IpiAcquire(c) ==
    /\ failed = ""
    /\ curr[c] = SuspendedThread(c)
    /\ pc[curr[c]] = "ipi_acq"
    /\ guard = FALSE
    /\ guard' = TRUE
    /\ pc' = [pc EXCEPT ![curr[c]] = "ipi_body"]
    /\ UNCHANGED <<counter, loaded, increments, apc, buffer, produced, consumed>>
    /\ UNCHANGED <<ints, booted, cpu_pc, curr, ipi, sleeping_cpus, ready_threads,
                   finished_threads, status, join_q, op, mfree, mowner, mwaiting,
                   cvwaiting, failed, held, border>>

\* An ipi_handler that dispatches the thread at the back of the ready queue.
IpiBodyTakesLast(c) ==
    /\ failed = ""
    /\ curr[c] = SuspendedThread(c)
    /\ pc[curr[c]] = "ipi_body"
    /\ pc' = [pc EXCEPT ![curr[c]] = "ih_top"]
    /\ IF ready_threads # <<>>
       THEN LET n == ready_threads[Len(ready_threads)]
            IN  /\ curr' = [curr EXCEPT ![c] = n]
                /\ Commit([Kernel EXCEPT
                       !.ready = SubSeq(@, 1, Len(@) - 1),
                       !.status[n] = "RUNNING"])
       ELSE /\ curr' = curr
            /\ Commit(Kernel)
    /\ UNCHANGED <<guard, ints, booted, cpu_pc, finished_threads, join_q, op,
                   mfree, mowner, mwaiting, cvwaiting, held, border, counter, loaded,
                   apc, buffer, produced, consumed,
                   increments>>

\* cpu::ipi_handler under the guard: dispatch the head of the ready queue, or
\* return into the loop of suspend_helper.  The idle context saved by the
\* swapcontext resumes by returning from the handler into that same loop.
IpiBody(c) ==
    /\ failed = ""
    /\ curr[c] = SuspendedThread(c)
    /\ pc[curr[c]] = "ipi_body"
    /\ pc' = [pc EXCEPT ![curr[c]] = "ih_top"]
    /\ IF ready_threads # <<>>
       THEN LET n == Head(ready_threads)
            IN  /\ curr' = [curr EXCEPT ![c] = n]
                /\ Commit([Kernel EXCEPT
                       !.ready = Tail(@),
                       !.status[n] = "RUNNING",
                       !.failed = Check(@, status[n] = "READY",
                                        "ipi_handler: next not READY")])
       ELSE /\ curr' = curr
            /\ Commit(Kernel)
    /\ UNCHANGED <<counter, loaded, increments, apc, buffer, produced, consumed>>
    /\ UNCHANGED <<guard, ints, booted, cpu_pc, finished_threads, join_q, op,
                   mfree, mowner, mwaiting, cvwaiting, held, border>>

(***************************************************************************)
(* kernel_guard / user_guard, and the calls of the application             *)
(***************************************************************************)

OnThread(c, label) ==
    /\ failed = ""
    /\ cpu_pc[c] = "run"
    /\ curr[c] \in Threads
    /\ pc[curr[c]] = label

\* The next TCB a thread constructor allocates (0 when MaxThreads exist).
NextTCB ==
    IF \E t \in Threads : status[t] = "none"
    THEN CHOOSE t \in Threads : status[t] = "none" /\ \A u \in Threads : u < t => status[u] # "none"
    ELSE NoTCB

\* thread_execution entered by a new thread: user_guard constructor, guard_release.
ThreadStart(c) ==
    /\ OnThread(c, "fresh")
    /\ guard' = FALSE
    /\ pc' = [pc EXCEPT ![curr[c]] = "unmask"]
    /\ UNCHANGED <<counter, loaded, increments, apc, buffer, produced, consumed>>
    /\ UNCHANGED <<ints, booted, cpu_pc, curr, ipi, sleeping_cpus, ready_threads,
                   finished_threads, status, join_q, op, mfree, mowner, mwaiting,
                   cvwaiting, failed, held, border>>

\* What is left of a call once it returns: a lock or wait that returns
\* normally gives the caller the mutex; the timer handler goes on to yield.
Returning(o) ==
    IF o.kind \in {"lock", "relock", "timer"}
    THEN [NoOp EXCEPT !.kind = o.kind, !.m = o.m]
    ELSE NoOp

\* The body of call o ends on CPU c: the kernel_guard destructor is next.
Return(c, o) ==
    /\ pc' = [pc EXCEPT ![curr[c]] = "rel"]
    /\ op' = [op EXCEPT ![curr[c]] = Returning(o)]

\* The body of a call throws std::runtime_error: the kernel_guard destructor
\* runs while the exception unwinds the call.
Throw(c) ==
    /\ pc' = [pc EXCEPT ![curr[c]] = "throw"]
    /\ op' = [op EXCEPT ![curr[c]] = NoOp]

\* A kernel_guard constructor that goes to guard_acquire without
\* interrupt_disable.
AcquireUnmasked(c) ==
    /\ OnThread(c, "user")
    /\ ints[c]
    /\ pc' = [pc EXCEPT ![curr[c]] = "acq"]
    /\ UNCHANGED <<guard, ints, booted, cpu_pc, curr, ipi, sleeping_cpus, ready_threads,
                   finished_threads, status, join_q, op, mfree, mowner, mwaiting,
                   cvwaiting, failed, held, border, counter, loaded, increments,
                   apc, buffer, produced, consumed>>

\* cpu::interrupt_disable, the first half of a kernel_guard constructor (of a
\* library call or of the timer handler) and of the user_guard destructor when
\* the body returns.  Which of them it is shows to no other CPU before the
\* guard is acquired, so the call is recorded by the step that acquires it.
InterruptDisable(c) ==
    /\ OnThread(c, "user")
    /\ ints[c]
    /\ ints' = [ints EXCEPT ![c] = FALSE]
    /\ pc' = [pc EXCEPT ![curr[c]] = "acq"]
    /\ UNCHANGED <<counter, loaded, increments, apc, buffer, produced, consumed>>
    /\ UNCHANGED <<guard, booted, cpu_pc, curr, ipi, sleeping_cpus, ready_threads,
                   finished_threads, status, join_q, op, mfree, mowner, mwaiting,
                   cvwaiting, failed, held, border>>

\* cpu::timer_interrupt_handler after its kernel_guard block: thread::yield(),
\* whose kernel_guard constructor disables the interrupts again.
TimerYield(c) ==
    /\ OnThread(c, "tgap")
    /\ ints[c]
    /\ ints' = [ints EXCEPT ![c] = FALSE]
    /\ pc' = [pc EXCEPT ![curr[c]] = "acq_yield"]
    /\ UNCHANGED <<counter, loaded, increments, apc, buffer, produced, consumed>>
    /\ UNCHANGED <<guard, booted, cpu_pc, curr, ipi, sleeping_cpus, ready_threads,
                   finished_threads, status, join_q, op, mfree, mowner, mwaiting,
                   cvwaiting, failed, held, border>>

\* A call with its arguments: a mutex, a cv, a thread handle.
Call(kind, m, cvar, u) == [kind |-> kind, m |-> m, c |-> cvar, u |-> u]

\* The producer/consumer application: one mutex and two cvs around a buffer
\* of BufCap slots; the producer puts the items 0 .. NumItems-1.
BufCap == 1
NumItems == 3
BufferMutex == 1
NotEmpty == 1
NotFull == NumCvs + 1

\* The library call that the program of thread t makes next (NoOp: its next
\* step is not a library call).  The first thread creates the producer and
\* the consumer and returns.  The producer, for each item: lock; while the
\* buffer is full, wait(NotFull); put; signal(NotEmpty); unlock.  The
\* consumer, for each item: lock; while the buffer is empty, wait(NotEmpty);
\* take; signal(NotFull); unlock.
NextCall(t) ==
    CASE apc[t] \in {"main_p", "main_c"} -> Call("create", 0, 0, 0)
      [] apc[t] \in {"p_lock", "c_lock"} -> Call("lock", BufferMutex, 0, 0)
      [] apc[t] = "p_check" -> IF Len(buffer) = BufCap
                               THEN Call("wait", BufferMutex, NotFull, 0) ELSE NoOp
      [] apc[t] = "c_check" -> IF buffer = <<>>
                               THEN Call("wait", BufferMutex, NotEmpty, 0) ELSE NoOp
      [] apc[t] = "p_signal" -> Call("signal", 0, NotEmpty, 0)
      [] apc[t] = "c_signal" -> Call("signal", 0, NotFull, 0)
      [] apc[t] \in {"p_unlock", "c_unlock"} -> Call("unlock", BufferMutex, 0, 0)
      [] apc[t] \in {"main_end", "p_end", "c_end"} -> Call("exit", 0, 0, 0)
      [] OTHER -> NoOp

\* Where the program of thread t stands once it has made its next call.
AfterCall(t) ==
    CASE apc[t] = "main_p" -> "main_c"
      [] apc[t] = "main_c" -> "main_end"
      [] apc[t] = "p_lock" -> "p_check"
      [] apc[t] = "c_lock" -> "c_check"
      [] apc[t] = "p_signal" -> "p_unlock"
      [] apc[t] = "c_signal" -> "c_unlock"
      [] apc[t] = "p_unlock" -> IF produced = NumItems THEN "p_end" ELSE "p_lock"
      [] apc[t] = "c_unlock" -> IF Len(consumed) = NumItems THEN "c_end" ELSE "c_lock"
      [] apc[t] \in {"main_end", "p_end", "c_end"} -> "done"
      [] OTHER -> apc[t]

\* The program of the thread that thread t creates.
StartOf(t) ==
    CASE apc[t] = "main_p" -> "p_lock"
      [] apc[t] = "main_c" -> "c_lock"
      [] OTHER -> NoProgram

\* Call o is made by the application (not by the timer handler).
AppCalls(t, o) == o.kind # "timer" /\ pc[t] # "acq_yield"

\* cpu::guard_acquire of a kernel_guard (or user_guard destructor): one
\* successful guard.exchange(true), entering call o.  A call of unlock or wait
\* ends the caller's hold on the mutex as the application sees it.  Between
\* the two halves of an increment only the timer interrupts the application.
\* A thread with a program makes the next call of its program.
GuardAcquire(c, o) ==
    /\ OnThread(c, "acq") \/ (OnThread(c, "acq_yield") /\ o.kind = "yield")
    /\ loaded[curr[c]] = NoLoad \/ o.kind = "timer" \/ pc[curr[c]] = "acq_yield"
    /\ guard = FALSE
    /\ guard' = TRUE
    /\ held' = [held EXCEPT ![curr[c]] =
                   IF o.kind \in {"unlock", "wait"} THEN @ \ {o.m} ELSE @]
    /\ (AppCalls(curr[c], o) /\ apc[curr[c]] # NoProgram) => o = NextCall(curr[c])
    /\ apc' = IF ~AppCalls(curr[c], o) THEN apc
              ELSE IF o.kind = "create"
              THEN [apc EXCEPT ![curr[c]] = AfterCall(curr[c]), ![NextTCB] = StartOf(curr[c])]
              ELSE [apc EXCEPT ![curr[c]] = AfterCall(curr[c])]
    /\ UNCHANGED <<counter, loaded, increments, buffer, produced, consumed>>
    /\ UNCHANGED <<ints, booted, cpu_pc>>

\* kernel_guard destructor, first half: guard_release ("throw": while an
\* exception unwinds the call).  A normal return from lock or wait starts the
\* caller's hold on the mutex as the application sees it.
Release(c) ==
    /\ \/ OnThread(c, "rel")
       \/ OnThread(c, "throw")
    /\ guard' = FALSE
    /\ pc' = [pc EXCEPT ![curr[c]] = "unmask"]
    /\ held' = [held EXCEPT ![curr[c]] =
                   IF pc[curr[c]] = "rel" /\ op[curr[c]].kind \in {"lock", "relock"}
                   THEN @ \cup {op[curr[c]].m} ELSE @]
    /\ UNCHANGED <<counter, loaded, increments, apc, buffer, produced, consumed>>
    /\ UNCHANGED <<ints, booted, cpu_pc, curr, ipi, sleeping_cpus, ready_threads,
                   finished_threads, status, join_q, op, mfree, mowner, mwaiting,
                   cvwaiting, failed, border>>

\* kernel_guard destructor, second half (user_guard constructor for a new
\* thread): interrupt_enable; control is back in the application, or in the
\* timer handler between its kernel_guard block and thread::yield.
Unmask(c) ==
    /\ OnThread(c, "unmask")
    /\ ints' = [ints EXCEPT ![c] = TRUE]
    /\ pc' = [pc EXCEPT ![curr[c]] = IF op[curr[c]].kind = "timer" THEN "tgap" ELSE "user"]
    /\ op' = [op EXCEPT ![curr[c]] = NoOp]
    /\ UNCHANGED <<counter, loaded, increments, apc, buffer, produced, consumed>>
    /\ UNCHANGED <<guard, booted, cpu_pc, curr, ipi, sleeping_cpus, ready_threads,
                   finished_threads, status, join_q, mfree, mowner, mwaiting,
                   cvwaiting, failed, held, border>>

\* A resumption after which cv::wait returns without mtx.internal_lock().
ResumeWithoutRelock(c) ==
    /\ \/ OnThread(c, "gnt")
       \/ OnThread(c, "susp")
       \/ OnThread(c, "ysw")
    /\ failed' = IF pc[curr[c]] = "susp" THEN failed
                 ELSE ClearFinishedThreads(failed, curr[c])
    /\ Return(c, op[curr[c]])
    /\ UNCHANGED <<guard, ints, booted, cpu_pc, curr, ipi, sleeping_cpus,
                   ready_threads, finished_threads, status, join_q, mfree, mowner,
                   mwaiting, cvwaiting, held, border, counter, loaded, increments,
                   apc, buffer, produced, consumed>>

\* A thread whose context was saved by swapcontext in get_next_thread ("gnt"),
\* suspend_cpu ("susp") or yield ("ysw") is running again: the sweep of the
\* finished list (not on the suspend_cpu path), then the return to the caller
\* of get_next_thread; cv::wait goes on to mtx.internal_lock() ("relock").
Resume(c) ==
    /\ \/ OnThread(c, "gnt")
       \/ OnThread(c, "susp")
       \/ OnThread(c, "ysw")
    /\ LET t == curr[c]
       IN  /\ failed' = IF pc[t] = "susp" THEN failed ELSE ClearFinishedThreads(failed, t)
           /\ IF op[t].kind = "wait"
              THEN /\ pc' = [pc EXCEPT ![t] = "relock"]
                   /\ op' = [op EXCEPT ![t].kind = "relock"]
              ELSE Return(c, op[t])
    /\ UNCHANGED <<counter, loaded, increments, apc, buffer, produced, consumed>>
    /\ UNCHANGED <<guard, ints, booted, cpu_pc, curr, ipi, sleeping_cpus,
                   ready_threads, finished_threads, status, join_q, mfree, mowner,
                   mwaiting, cvwaiting, held, border>>

(***************************************************************************)
(* mutex.cpp                                                               *)
(***************************************************************************)

\* An internal_lock that takes the mutex whether or not it is free.
LockNeverBlocks(m) == FALSE

\* mutex::internal_lock: the test `if (!free)`.
LockMustBlock(m) == ~mfree[m]

\* A thread that owns the mutex again leaves the broadcast bookkeeping.
Reacquired(t) == [cvar \in CvObjects |-> Without(border[cvar], t)]

\* mutex::internal_lock(), run under the guard by the current thread of CPU c
\* inside call o (mutex::lock, or the last step of cv::wait).
InternalLock(c, o) ==
    LET t == curr[c]
        m == o.m
    IN  /\ IF LockMustBlock(m)
           THEN /\ mwaiting' = [mwaiting EXCEPT ![m] = Append(@, t)]
                /\ GetNextThread(c, t, [Kernel EXCEPT !.status[t] = "BLOCKED"])
                /\ op' = [op EXCEPT ![t] = o]
                /\ UNCHANGED <<mfree, mowner, border>>
           ELSE /\ mowner' = [mowner EXCEPT ![m] = t]
                /\ mfree' = [mfree EXCEPT ![m] = FALSE]
                /\ Return(c, o)
                /\ border' = Reacquired(t)
                /\ UNCHANGED <<curr, ipi, sleeping_cpus, ready_threads, status,
                               failed, mwaiting>>
        /\ UNCHANGED <<finished_threads, join_q, cvwaiting>>

\* An internal_unlock that wakes the head waiter but leaves the mutex free for
\* whoever locks it first.
UnlockWithoutHandoff(m, self) ==
    IF mwaiting[m] = <<>>
    THEN [free |-> [mfree EXCEPT ![m] = TRUE], owner |-> mowner, waiting |-> mwaiting,
          K |-> Kernel, woken |-> NoTCB]
    ELSE [free |-> [mfree EXCEPT ![m] = TRUE],
          owner |-> mowner,
          waiting |-> [mwaiting EXCEPT ![m] = Tail(@)],
          K |-> PushToQueue(Kernel, Head(mwaiting[m]), self),
          woken |-> NoTCB]

\* An internal_unlock that hands the mutex to the waiter that blocked last.
InternalUnlockLast(m, self) ==
    IF mwaiting[m] = <<>>
    THEN [free |-> [mfree EXCEPT ![m] = TRUE], owner |-> mowner, waiting |-> mwaiting,
          K |-> Kernel, woken |-> NoTCB]
    ELSE LET w == mwaiting[m][Len(mwaiting[m])]
         IN  [free |-> [mfree EXCEPT ![m] = FALSE],
              owner |-> [mowner EXCEPT ![m] = w],
              waiting |-> [mwaiting EXCEPT ![m] = SubSeq(@, 1, Len(@) - 1)],
              K |-> PushToQueue(Kernel, w, self),
              woken |-> w]

\* mutex::internal_unlock past its ownership check, run by CPU self: the new
\* mutex fields and scheduler state (woken: the waiter handed the mutex).
InternalUnlock(m, self) ==
    IF mwaiting[m] = <<>>
    THEN [free |-> [mfree EXCEPT ![m] = TRUE], owner |-> mowner, waiting |-> mwaiting,
          K |-> Kernel, woken |-> NoTCB]
    ELSE LET w == Head(mwaiting[m])
             K1 == [Kernel EXCEPT !.failed =
                        Check(@, status[w] # "FINISHED", "internal_unlock: waiter FINISHED")]
         IN  [free |-> [mfree EXCEPT ![m] = FALSE],
              owner |-> [mowner EXCEPT ![m] = w],
              waiting |-> [mwaiting EXCEPT ![m] = Tail(@)],
              K |-> PushToQueue(K1, w, self),
              woken |-> w]

\* mutex::internal_unlock: `thread_holding_lock != curr_thread->id` throws.
UnlockThrows(m, t) == mowner[m] # t

\* mutex::lock(): kernel_guard, internal_lock().
Lock(c, m) ==
    /\ GuardAcquire(c, Call("lock", m, 0, 0))
    /\ InternalLock(c, Call("lock", m, 0, 0))

\* cv::wait step 5, under the guard the resumed thread holds: mtx.internal_lock().
Relock(c) ==
    /\ OnThread(c, "relock")
    /\ InternalLock(c, op[curr[c]])
    /\ UNCHANGED <<counter, loaded, increments, apc, buffer, produced, consumed>>
    /\ UNCHANGED <<guard, ints, booted, cpu_pc, held>>

\* mutex::unlock(): kernel_guard, internal_unlock().
Unlock(c, m) ==
    /\ GuardAcquire(c, Call("unlock", m, 0, 0))
    /\ LET t == curr[c]
           r == InternalUnlock(m, c)
       IN  IF UnlockThrows(m, t)
           THEN /\ Throw(c)
                /\ UNCHANGED <<mfree, mowner, mwaiting, ipi, sleeping_cpus,
                               ready_threads, status, failed, border>>
           ELSE /\ Return(c, Call("unlock", m, 0, 0))
                /\ mfree' = r.free
                /\ mowner' = r.owner
                /\ mwaiting' = r.waiting
                /\ Commit(r.K)
                /\ border' = IF r.woken = NoTCB THEN border ELSE Reacquired(r.woken)
    /\ UNCHANGED <<curr, finished_threads, join_q, cvwaiting>>

(***************************************************************************)
(* cv.cpp                                                                  *)
(***************************************************************************)

\* cv::wait: `mtx.thread_holding_lock == curr_thread->id`, else it throws.
WaitOwns(m, t) == mowner[m] = t

\* A cv::wait that lets go of the guard once it has released the mutex, before
\* it enqueues the caller on the waitlist.
WaitDropsGuard(c, cvar, m) ==
    /\ OnThread(c, "acq")
    /\ loaded[curr[c]] = NoLoad
    /\ guard = FALSE
    /\ guard' = FALSE
    /\ WaitOwns(m, curr[c])
    /\ held' = [held EXCEPT ![curr[c]] = @ \ {m}]
    /\ pc' = [pc EXCEPT ![curr[c]] = "w2"]
    /\ op' = [op EXCEPT ![curr[c]] = Call("wait", m, cvar, 0)]
    /\ mfree' = InternalUnlock(m, c).free
    /\ mowner' = InternalUnlock(m, c).owner
    /\ mwaiting' = InternalUnlock(m, c).waiting
    /\ Commit(InternalUnlock(m, c).K)
    /\ UNCHANGED <<ints, booted, cpu_pc, curr, finished_threads, join_q, cvwaiting,
                   border, counter, loaded, increments, apc, buffer, produced,
                   consumed>>

\* cv::wait(mtx): kernel_guard, the ownership test and step 1,
\* mtx.internal_unlock().
Wait(c, cvar, m) ==
    /\ GuardAcquire(c, Call("wait", m, cvar, 0))
    /\ LET t == curr[c]
           r == InternalUnlock(m, c)
       IN  IF WaitOwns(m, t)
           THEN /\ pc' = [pc EXCEPT ![t] = "w2"]
                /\ op' = [op EXCEPT ![t] = Call("wait", m, cvar, 0)]
                /\ mfree' = r.free
                /\ mowner' = r.owner
                /\ mwaiting' = r.waiting
                /\ Commit(r.K)
                /\ border' = IF r.woken = NoTCB THEN border ELSE Reacquired(r.woken)
           ELSE /\ Throw(c)
                /\ UNCHANGED <<mfree, mowner, mwaiting, ipi, sleeping_cpus,
                               ready_threads, status, failed, border>>
    /\ UNCHANGED <<curr, finished_threads, join_q, cvwaiting>>

\* A cv::wait that releases the guard once the thread is on the waitlist,
\* before its context is saved.
WaitEnqueueReleases(c) ==
    /\ OnThread(c, "w2")
    /\ guard' = FALSE
    /\ LET t == curr[c]
       IN  /\ status' = [status EXCEPT ![t] = "BLOCKED"]
           /\ cvwaiting' = [cvwaiting EXCEPT ![op[t].c] = Append(@, t)]
           /\ pc' = [pc EXCEPT ![t] = "w3"]
    /\ UNCHANGED <<ints, booted, cpu_pc, curr, ipi, sleeping_cpus,
                   ready_threads, finished_threads, join_q, op, mfree, mowner,
                   mwaiting, failed, held, border, counter, loaded, increments,
                   apc, buffer, produced, consumed>>

\* cv::wait step 2, still under the guard: BLOCKED, onto the cv's waitlist.
WaitEnqueue(c) ==
    /\ OnThread(c, "w2")
    /\ LET t == curr[c]
       IN  /\ status' = [status EXCEPT ![t] = "BLOCKED"]
           /\ cvwaiting' = [cvwaiting EXCEPT ![op[t].c] = Append(@, t)]
           /\ pc' = [pc EXCEPT ![t] = "w3"]
    /\ UNCHANGED <<counter, loaded, increments, apc, buffer, produced, consumed>>
    /\ UNCHANGED <<guard, ints, booted, cpu_pc, curr, ipi, sleeping_cpus,
                   ready_threads, finished_threads, join_q, op, mfree, mowner,
                   mwaiting, failed, held, border>>

\* cv::wait step 3, still under the guard: cpu::get_next_thread().
WaitSleep(c) ==
    /\ OnThread(c, "w3")
    /\ GetNextThread(c, curr[c], Kernel)
    /\ UNCHANGED <<counter, loaded, increments, apc, buffer, produced, consumed>>
    /\ UNCHANGED <<guard, ints, booted, cpu_pc, finished_threads, join_q, op, mfree,
                   mowner, mwaiting, cvwaiting, held, border>>

\* A signal that wakes nobody.
SignalIgnored(c, cvar) ==
    /\ GuardAcquire(c, Call("signal", 0, cvar, 0))
    /\ Return(c, Call("signal", 0, cvar, 0))
    /\ UNCHANGED <<curr, ipi, sleeping_cpus, ready_threads, status, failed, cvwaiting,
                   finished_threads, join_q, mfree, mowner, mwaiting, border>>

\* A signal that pops the head of the waitlist and does not make it ready.
SignalDropsWaiter(c, cvar) ==
    /\ GuardAcquire(c, Call("signal", 0, cvar, 0))
    /\ Return(c, Call("signal", 0, cvar, 0))
    /\ cvwaiting' = [cvwaiting EXCEPT ![cvar] = IF @ = <<>> THEN @ ELSE Tail(@)]
    /\ UNCHANGED <<curr, ipi, sleeping_cpus, ready_threads, status, failed,
                   finished_threads, join_q, mfree, mowner, mwaiting, border>>

\* cv::signal().
Signal(c, cvar) ==
    /\ GuardAcquire(c, Call("signal", 0, cvar, 0))
    /\ Return(c, Call("signal", 0, cvar, 0))
    /\ IF cvwaiting[cvar] # <<>>
       THEN /\ cvwaiting' = [cvwaiting EXCEPT ![cvar] = Tail(@)]
            /\ Commit(PushToQueue(Kernel, Head(cvwaiting[cvar]), c))
       ELSE /\ cvwaiting' = cvwaiting
            /\ Commit(Kernel)
    /\ UNCHANGED <<curr, finished_threads, join_q, mfree, mowner, mwaiting, border>>

\* A broadcast that makes every waiter ready and leaves them on the waitlist.
BroadcastKeepsWaitlist(c, cvar) ==
    /\ GuardAcquire(c, Call("broadcast", 0, cvar, 0))
    /\ Return(c, Call("broadcast", 0, cvar, 0))
    /\ Commit(PushAll(Kernel, cvwaiting[cvar], c))
    /\ border' = [border EXCEPT ![cvar] = @ \o cvwaiting[cvar]]
    /\ UNCHANGED <<curr, finished_threads, join_q, mfree, mowner, mwaiting, cvwaiting>>

\* cv::broadcast().
Broadcast(c, cvar) ==
    /\ GuardAcquire(c, Call("broadcast", 0, cvar, 0))
    /\ Return(c, Call("broadcast", 0, cvar, 0))
    /\ cvwaiting' = [cvwaiting EXCEPT ![cvar] = <<>>]
    /\ Commit(PushAll(Kernel, cvwaiting[cvar], c))
    /\ border' = [border EXCEPT ![cvar] = @ \o cvwaiting[cvar]]
    /\ UNCHANGED <<curr, finished_threads, join_q, mfree, mowner, mwaiting>>

(***************************************************************************)
(* thread.cpp                                                              *)
(***************************************************************************)

\* A yield that returns to its caller whatever is on the ready queue.
YieldNeverSwitches(c) ==
    /\ GuardAcquire(c, Call("yield", 0, 0, 0))
    /\ Return(c, Call("yield", 0, 0, 0))
    /\ UNCHANGED <<curr, ipi, sleeping_cpus, ready_threads, status, failed,
                   finished_threads, join_q, mfree, mowner, mwaiting, cvwaiting, border>>

\* thread::yield(), called by the application or by the timer handler.
Yield(c) ==
    /\ GuardAcquire(c, Call("yield", 0, 0, 0))
    /\ LET t == curr[c]
       IN  IF ready_threads # <<>>
           THEN LET n == Head(ready_threads)
                    K1 == PushToQueue([Kernel EXCEPT !.ready = Tail(@)], t, c)
                IN  /\ curr' = [curr EXCEPT ![c] = n]
                    /\ Commit([K1 EXCEPT !.status[n] = "RUNNING"])
                    /\ pc' = [pc EXCEPT ![t] = "ysw"]
                    /\ op' = [op EXCEPT ![t] = Call("yield", 0, 0, 0)]
           ELSE /\ Return(c, Call("yield", 0, 0, 0))
                /\ UNCHANGED <<curr, ipi, sleeping_cpus, ready_threads, status, failed>>
    /\ UNCHANGED <<finished_threads, join_q, mfree, mowner, mwaiting, cvwaiting, border>>

\* A join that never blocks.
JoinNeverBlocks(u) == FALSE

\* thread::join: the test `temp_this_thread->status != Status::FINISHED`.
JoinMustBlock(u) == status[u] # "FINISHED"

\* thread::join() on the handle of u (the first thread has no handle; the
\* weak reference always locks: the finished list keeps every TCB alive).
Join(c, u) ==
    /\ u # FirstThread
    /\ status[u] # "none"
    /\ GuardAcquire(c, Call("join", 0, 0, u))
    /\ LET t == curr[c]
       IN  IF JoinMustBlock(u)
           THEN /\ join_q' = [join_q EXCEPT ![u] = Append(@, t)]
                /\ GetNextThread(c, t, [Kernel EXCEPT !.status[t] = "BLOCKED"])
                /\ op' = [op EXCEPT ![t] = Call("join", 0, 0, u)]
           ELSE /\ Return(c, Call("join", 0, 0, u))
                /\ UNCHANGED <<curr, ipi, sleeping_cpus, ready_threads, status,
                               failed, join_q>>
    /\ UNCHANGED <<finished_threads, mfree, mowner, mwaiting, cvwaiting, border>>

\* thread::thread(func, arg) with func # nullptr: a new TCB, pushed onto the
\* ready queue.  At most MaxThreads TCBs are ever constructed.
Create(c) ==
    /\ NextTCB # NoTCB
    /\ GuardAcquire(c, Call("create", 0, 0, 0))
    /\ LET t == curr[c]
           n == NextTCB
           f == Check(failed, booted, "thread: cpu not booted")
       IN  /\ pc' = [pc EXCEPT ![t] = "rel", ![n] = "fresh"]
           /\ op' = [op EXCEPT ![t] = Returning(Call("create", 0, 0, 0))]
           /\ Commit(PushToQueue([Kernel EXCEPT !.status[n] = "Null", !.failed = f], n, c))
    /\ UNCHANGED <<curr, finished_threads, join_q, mfree, mowner, mwaiting,
                   cvwaiting, border>>

\* A thread_execution that does not push the terminated thread onto the
\* finished list.
ExitSkipsFinishedList(c) ==
    /\ GuardAcquire(c, Call("exit", 0, 0, 0))
    /\ LET t == curr[c]
           K1 == PushAll(Kernel, join_q[t], c)
           K2 == [K1 EXCEPT !.status[t] = "FINISHED"]
       IN  /\ join_q' = [join_q EXCEPT ![t] = <<>>]
           /\ pc' = [pc EXCEPT ![t] = "done"]
           /\ op' = [op EXCEPT ![t] = NoOp]
           /\ IF K2.ready # <<>>
              THEN LET n == Head(K2.ready)
                   IN  /\ curr' = [curr EXCEPT ![c] = n]
                       /\ Commit([K2 EXCEPT !.ready = Tail(@), !.status[n] = "RUNNING"])
              ELSE /\ curr' = [curr EXCEPT ![c] = SuspendedThread(c)]
                   /\ Commit(K2)
    /\ UNCHANGED <<finished_threads, mfree, mowner, mwaiting, cvwaiting, border>>

\* thread_execution after func(arg) returned: the user_guard destructor
\* acquires the guard; wake the joiners, FINISHED, onto the finished list, then
\* dispatch the head of the ready queue (setcontext) or suspend_cpu.
Exit(c) ==
    /\ GuardAcquire(c, Call("exit", 0, 0, 0))
    /\ LET t == curr[c]
           K1 == PushAll(Kernel, join_q[t], c)
           K2 == [K1 EXCEPT !.status[t] = "FINISHED"]
       IN  /\ join_q' = [join_q EXCEPT ![t] = <<>>]
           /\ finished_threads' = Append(finished_threads, t)
           /\ pc' = [pc EXCEPT ![t] = "done"]
           /\ op' = [op EXCEPT ![t] = NoOp]
           /\ IF K2.ready # <<>>
              THEN LET n == Head(K2.ready)
                   IN  /\ curr' = [curr EXCEPT ![c] = n]
                       /\ Commit([K2 EXCEPT !.ready = Tail(@), !.status[n] = "RUNNING"])
              ELSE /\ curr' = [curr EXCEPT ![c] = SuspendedThread(c)]
                   /\ Commit(K2)
    /\ UNCHANGED <<mfree, mowner, mwaiting, cvwaiting, border>>

\* A timer handler that goes on to thread::yield() inside its kernel_guard
\* block: the kernel_guard of yield is nested in the one of the handler.
TimerNested(c) ==
    /\ OnThread(c, "acq")
    /\ GuardAcquire(c, Call("timer", 0, 0, 0))
    /\ pc' = [pc EXCEPT ![curr[c]] = "acq_yield"]
    /\ op' = [op EXCEPT ![curr[c]] = Returning(Call("timer", 0, 0, 0))]
    /\ UNCHANGED <<curr, ipi, sleeping_cpus, ready_threads, finished_threads,
                   status, join_q, mfree, mowner, mwaiting, cvwaiting, failed, border>>

\* cpu::timer_interrupt_handler, interrupting user code: under its
\* kernel_guard, return at once when the CPU is on its idle TCB, else leave
\* the block (thread::yield follows, see TimerYield).
Timer(c) ==
    /\ OnThread(c, "acq")
    /\ GuardAcquire(c, Call("timer", 0, 0, 0))
    /\ Return(c, Call("timer", 0, 0, 0))
    /\ UNCHANGED <<curr, ipi, sleeping_cpus, ready_threads, finished_threads,
                   status, join_q, mfree, mowner, mwaiting, cvwaiting, failed, border>>

(***************************************************************************)
(* The program                                                             *)
(***************************************************************************)

CpuStep(c) ==
    \/ BootAcquire(c)
    \/ BootBody(c)
    \/ IdlePush(c)
    \/ IdleRelease(c)
    \/ IdleSuspend(c)
    \/ IpiDeliver(c)
    \/ IpiAcquire(c)
    \/ IpiBody(c)

\* The steps of the guards around every call, and of a resumed context.
GuardStep(c) ==
    \/ ThreadStart(c)
    \/ Release(c)
    \/ Unmask(c)
    \/ Resume(c)
    \/ TimerYield(c)

\* The steps of cv::wait after its first.
WaitStep(c) ==
    \/ Relock(c)
    \/ WaitEnqueue(c)
    \/ WaitSleep(c)

KernelStep(c) == GuardStep(c) \/ WaitStep(c)

UserStep(c) ==
    \/ InterruptDisable(c)
    \/ \E m \in Mutexes : Lock(c, m)
    \/ \E m \in Mutexes : Unlock(c, m)
    \/ \E cvar \in Cvs, m \in Mutexes : Wait(c, cvar, m)
    \/ \E cvar \in Cvs : Signal(c, cvar)
    \/ \E cvar \in Cvs : Broadcast(c, cvar)
    \/ Yield(c)
    \/ \E u \in Threads : Join(c, u)
    \/ Create(c)
    \/ Exit(c)
    \/ Timer(c)

Next == \E c \in CPUs : CpuStep(c) \/ KernelStep(c) \/ UserStep(c)

Spec == Init /\ [][Next]_vars

(***************************************************************************)
(* An application that increments a shared counter under a mutex           *)
(***************************************************************************)

\* The mutex under which the application increments counter.
CounterMutex == 1

\* counter++ of a thread that holds the counter's mutex, first half: the load.
IncrLoad(c) ==
    /\ OnThread(c, "user")
    /\ CounterMutex \in held[curr[c]]
    /\ loaded[curr[c]] = NoLoad
    /\ increments < MaxIncrements
    /\ loaded' = [loaded EXCEPT ![curr[c]] = counter]
    /\ UNCHANGED <<guard, ints, booted, cpu_pc, curr, ipi, sleeping_cpus, ready_threads,
                   finished_threads, status, join_q, pc, op, mfree, mowner, mwaiting,
                   cvwaiting, failed, held, border, counter, increments,
                   apc, buffer, produced, consumed>>

\* counter++, second half: the store of the loaded value plus one.
IncrStore(c) ==
    /\ OnThread(c, "user")
    /\ loaded[curr[c]] # NoLoad
    /\ counter' = loaded[curr[c]] + 1
    /\ loaded' = [loaded EXCEPT ![curr[c]] = NoLoad]
    /\ increments' = increments + 1
    /\ UNCHANGED <<guard, ints, booted, cpu_pc, curr, ipi, sleeping_cpus, ready_threads,
                   finished_threads, status, join_q, pc, op, mfree, mowner, mwaiting,
                   cvwaiting, failed, held, border, apc, buffer, produced, consumed>>

AppStep(c) ==
    \/ IncrLoad(c)
    \/ IncrStore(c)

CounterNext == \E c \in CPUs : CpuStep(c) \/ KernelStep(c) \/ UserStep(c) \/ AppStep(c)

CounterSpec == Init /\ [][CounterNext]_vars

(***************************************************************************)
(* The producer/consumer application                                       *)
(***************************************************************************)

BufferInit ==
    /\ LibraryInit
    /\ apc = [t \in Threads |-> IF t = FirstThread THEN "main_p" ELSE NoProgram]

\* The producer, holding the mutex with a free slot: put the next item.
Produce(c) ==
    /\ OnThread(c, "user")
    /\ apc[curr[c]] = "p_check"
    /\ Len(buffer) < BufCap
    /\ buffer' = Append(buffer, produced)
    /\ produced' = produced + 1
    /\ apc' = [apc EXCEPT ![curr[c]] = "p_signal"]
    /\ UNCHANGED <<guard, ints, booted, cpu_pc, curr, ipi, sleeping_cpus, ready_threads,
                   finished_threads, status, join_q, pc, op, mfree, mowner, mwaiting,
                   cvwaiting, failed, held, border, counter, loaded, increments,
                   consumed>>

\* The consumer, holding the mutex with an item in the buffer: take the oldest.
Consume(c) ==
    /\ OnThread(c, "user")
    /\ apc[curr[c]] = "c_check"
    /\ buffer # <<>>
    /\ consumed' = Append(consumed, Head(buffer))
    /\ buffer' = Tail(buffer)
    /\ apc' = [apc EXCEPT ![curr[c]] = "c_signal"]
    /\ UNCHANGED <<guard, ints, booted, cpu_pc, curr, ipi, sleeping_cpus, ready_threads,
                   finished_threads, status, join_q, pc, op, mfree, mowner, mwaiting,
                   cvwaiting, failed, held, border, counter, loaded, increments,
                   produced>>

\* The steps of the program of the thread that CPU c runs.
ProgramStep(c) ==
    \/ Lock(c, BufferMutex)
    \/ Unlock(c, BufferMutex)
    \/ \E cvar \in {NotEmpty, NotFull} : Wait(c, cvar, BufferMutex)
    \/ \E cvar \in {NotEmpty, NotFull} : Signal(c, cvar)
    \/ Create(c)
    \/ Exit(c)
    \/ Produce(c)
    \/ Consume(c)

(***************************************************************************)
(* Scheduling: what the machine carries on with whatever the application   *)
(* does                                                                    *)
(***************************************************************************)

\* The steps of CPU c that need no decision of the application: the CPU's own
\* code, the rest of a library call once it holds the guard, a guard spin
\* that gets the guard, and the next interrupt-disable of running user code
\* (by its next library call, its return, or the next timer interrupt).
Running(c) ==
    \/ CpuStep(c)
    \/ GuardStep(c)
    \/ InterruptDisable(c)
    \/ Yield(c) /\ pc[curr[c]] = "acq_yield"

Forced(c) == Running(c) \/ WaitStep(c)

\* Every CPU keeps executing, a spin on the guard that finds it free again
\* and again gets it, and the periodic timer keeps interrupting user code.
Fairness == \A c \in CPUs : SF_vars(Forced(c)) /\ SF_vars(Timer(c))

(***************************************************************************)
(* An application of threads that use one monitor: lock, unlock, wait,     *)
(* signal, broadcast                                                       *)
(***************************************************************************)

MonitorStep(c) ==
    \/ \E m \in Mutexes : Lock(c, m)
    \/ \E m \in Mutexes : Unlock(c, m)
    \/ \E cvar \in Cvs, m \in Mutexes : Wait(c, cvar, m)
    \/ \E cvar \in Cvs : Signal(c, cvar)
    \/ \E cvar \in Cvs : Broadcast(c, cvar)
    \/ Create(c)
    \/ Timer(c)

MonitorNext == \E c \in CPUs : Forced(c) \/ MonitorStep(c)

MonitorSpec == Init /\ [][MonitorNext]_vars /\ Fairness

(***************************************************************************)
(* An application of threads that create, join, yield and finish, and call *)
(* nothing else (so no thread is ever inside cv::wait)                     *)
(***************************************************************************)

JoinStep(c) ==
    \/ \E u \in Threads : Join(c, u)
    \/ Create(c)
    \/ Yield(c)
    \/ Exit(c)
    \/ Timer(c)

JoinNext == \E c \in CPUs : Running(c) \/ JoinStep(c)

JoinSpec == Init /\ [][JoinNext]_vars /\ Fairness

(***************************************************************************)
(* The producer/consumer application on the machine: every CPU keeps       *)
(* executing, and a thread in user code gets to make its next step between *)
(* two timer interrupts again and again                                    *)
(***************************************************************************)

BufferNext == \E c \in CPUs : Forced(c) \/ ProgramStep(c) \/ Timer(c)

BufferSpec ==
    /\ BufferInit
    /\ [][BufferNext]_vars
    /\ Fairness
    /\ \A c \in CPUs : SF_vars(ProgramStep(c))

(***************************************************************************)
(* Properties                                                              *)
(***************************************************************************)

\* The threads between a normal return from m.lock() or cv::wait(.., m) and
\* their next call of m.unlock() or cv::wait(.., m).
Holders(m) == {t \in Threads : m \in held[t]}

\* C1: mutual exclusion.  At any instant at most one thread is between a
\* successful return from m.lock() (or from cv::wait on m) and its matching
\* m.unlock(), on any number of CPUs and with timer preemption; that thread is
\* the recorded owner of a mutex that is not free.  Hence no increment of a
\* counter made under the mutex is lost: the counter equals the number of
\* increments completed.
C1_MutualExclusion ==
    /\ \A m \in Mutexes :
          /\ Cardinality(Holders(m)) <= 1
          /\ \A t \in Holders(m) : mowner[m] = t /\ ~mfree[m]
    /\ counter = increments
    /\ \A t \in Threads : loaded[t] \in {NoLoad, counter}

\* An increment was made, a thread that holds the mutex was preempted by the
\* timer in the middle of the next increment, and another thread waits for the
\* mutex.
C1_Witness ==
    /\ counter > 0
    /\ \E t \in Threads, u \in Threads, m \in Mutexes :
          /\ t # u
          /\ m = CounterMutex
          /\ m \in held[t]
          /\ loaded[t] # NoLoad
          /\ status[t] = "READY"
          /\ u \in Range(mwaiting[m])

\* Thread t blocked inside internal_lock on m (called by lock or by the last
\* step of wait), was popped from m's waitlist and has not returned yet.
HandedOff(t, m) ==
    /\ pc[t] \in {"gnt", "susp"}
    /\ op[t].kind \in {"lock", "relock"}
    /\ op[t].m = m
    /\ t \notin Range(mwaiting[m])

\* C2: direct handoff.  A release that finds waiters pops the head of the
\* waitlist, makes it the owner and READY, and leaves the mutex not free; the
\* mutex becomes free only by a release that finds no waiter, so it is never
\* free while a thread waits for it.  From the handoff until the woken waiter
\* returns it is the owner of a mutex that is not free, so any other thread
\* that calls lock() in the meantime blocks; the owner of a mutex that is not
\* free changes by handoff only.
C2_DirectHandoff ==
    /\ [](\A m \in Mutexes :
            /\ mfree[m] => mwaiting[m] = <<>>
            /\ \A t \in Threads : HandedOff(t, m) => mowner[m] = t /\ ~mfree[m])
    /\ [][\A m \in Mutexes :
            /\ Len(mwaiting'[m]) < Len(mwaiting[m]) =>
                  \E w \in Threads :
                      /\ w = Head(mwaiting[m])
                      /\ mwaiting'[m] = Tail(mwaiting[m])
                      /\ mowner'[m] = w
                      /\ ~mfree'[m]
                      /\ status'[w] = "READY"
                      /\ w \in Range(ready_threads')
                      /\ HandedOff(w, m)'
            /\ (~mfree[m] /\ mfree'[m]) => mwaiting[m] = <<>>
            /\ (~mfree[m] /\ mowner'[m] # mowner[m]) =>
                  /\ mwaiting[m] # <<>>
                  /\ mowner'[m] = Head(mwaiting[m])
            /\ \A t \in Threads :
                  (HandedOff(t, m) /\ ~HandedOff(t, m)') =>
                      /\ pc'[t] = "rel"
                      /\ mowner'[m] = t
                      /\ ~mfree'[m]]_vars

\* A waiter was handed the mutex and has not run yet; a third thread that
\* called lock() in the meantime is blocked on the waitlist.
C2_Witness ==
    \E t \in Threads, u \in Threads, m \in Mutexes :
        /\ t # u
        /\ HandedOff(t, m)
        /\ op[t].kind = "lock"
        /\ status[t] = "READY"
        /\ u \in Range(mwaiting[m])
        /\ mowner[m] = t

\* C3: unlock by a thread that does not hold the mutex.  Every m.unlock()
\* called by a thread that is not the current holder of m (m held by another
\* thread, or free, also after the caller held and released it) throws and
\* leaves m's owner, free flag and waitlist and the ready queue unchanged, and
\* the guard is released when the exception leaves the call.
C3_NonHolderUnlock ==
    [][/\ \A c \in CPUs, m \in Mutexes :
            (Unlock(c, m) /\ m \notin held[curr[c]]) =>
                /\ pc'[curr[c]] = "throw"
                /\ UNCHANGED <<mfree, mowner, mwaiting, ready_threads>>
       /\ \A t \in Threads :
            (pc[t] = "throw" /\ pc'[t] # "throw") => ~guard']_vars

\* A thread that held m and released it is about to make a call while m is
\* free and still records it as the owner.
C3_Witness ==
    \E c \in CPUs, m \in Mutexes :
        /\ OnThread(c, "acq")
        /\ m \notin held[curr[c]]
        /\ mfree[m]
        /\ mowner[m] = curr[c]
        /\ ~guard

\* C4: wait by a thread that does not hold the mutex.  Every c.wait(m) called
\* by a thread that does not currently hold m (m free or held by another
\* thread, also after the caller held and released it) throws: the caller
\* does not block, is not put on the waitlist of c, and m is unchanged.
C4_NonHolderWait ==
    [][\A c \in CPUs, cvar \in Cvs, m \in Mutexes :
          (Wait(c, cvar, m) /\ m \notin held[curr[c]]) =>
              /\ pc'[curr[c]] = "throw"
              /\ UNCHANGED <<mfree, mowner, mwaiting, cvwaiting, status>>]_vars

\* A thread that held m and released it is about to make a call while m is
\* free and still records it as the owner, and another thread waits on a cv.
C4_Witness ==
    \E c \in CPUs, cvar \in Cvs, m \in Mutexes :
        /\ OnThread(c, "acq")
        /\ loaded[curr[c]] = NoLoad
        /\ m \notin held[curr[c]]
        /\ mfree[m]
        /\ mowner[m] = curr[c]
        /\ cvwaiting[cvar] # <<>>
        /\ curr[c] \notin Range(cvwaiting[cvar])
        /\ ~guard

\* Thread t released its mutex inside cvar.wait and no signal or broadcast
\* has woken it since.
Unwoken(t, cvar) ==
    /\ op[t].kind = "wait"
    /\ op[t].c = cvar
    /\ pc[t] \in {"w2", "w3"} \/ status[t] = "BLOCKED"

\* The state the library calls read and write.
kernel_vars ==
    <<curr, ready_threads, finished_threads, status, join_q, mfree, mowner, mwaiting,
      cvwaiting, sleeping_cpus>>

\* C5: no lost wakeup.  From the release of the mutex inside cv::wait until
\* the caller is BLOCKED, on the cv waitlist and switched out, the guard is
\* held and no other step changes the library's state; whenever the guard is
\* free, every thread that released its mutex in wait and was not woken is
\* BLOCKED on the cv waitlist.  So a signal finds such a waiter on the
\* waitlist, which is not empty, and makes its head READY, and a broadcast
\* makes every such waiter READY.
C5_NoLostWakeup ==
    /\ [](\A t \in Threads, cvar \in Cvs :
            /\ pc[t] \in {"w2", "w3"} => guard
            /\ (Unwoken(t, cvar) /\ ~guard) =>
                  /\ t \in Range(cvwaiting[cvar])
                  /\ status[t] = "BLOCKED"
                  /\ pc[t] \in {"gnt", "susp"})
    /\ [][/\ \A t \in Threads :
               /\ pc[t] = "w2" =>
                     \/ pc'[t] = "w3" /\ status'[t] = "BLOCKED"
                           /\ cvwaiting'[op[t].c] = Append(cvwaiting[op[t].c], t)
                     \/ UNCHANGED <<kernel_vars, guard, pc[t]>>
               /\ pc[t] = "w3" =>
                     \/ pc'[t] \in {"gnt", "susp"} /\ guard' /\ cvwaiting' = cvwaiting
                     \/ UNCHANGED <<kernel_vars, guard, pc[t]>>
          /\ \A c \in CPUs, cvar \in Cvs, t \in Threads :
               /\ (Signal(c, cvar) /\ Unwoken(t, cvar)) =>
                     /\ cvwaiting[cvar] # <<>>
                     /\ \E w \in Threads :
                           /\ w = Head(cvwaiting[cvar])
                           /\ Unwoken(w, cvar)
                           /\ status'[w] = "READY"
                           /\ w \in Range(ready_threads')
               /\ (Broadcast(c, cvar) /\ Unwoken(t, cvar)) =>
                     /\ status'[t] = "READY"
                     /\ t \in Range(ready_threads')]_vars

\* A waiter that released the mutex in wait was made READY by a thread that
\* holds the mutex and is leaving its signal or broadcast.
C5_Witness ==
    \E t \in Threads, u \in Threads, m \in Mutexes :
        /\ op[t].kind = "wait"
        /\ op[t].m = m
        /\ status[t] = "READY"
        /\ t \in Range(ready_threads)
        /\ m \in held[u]
        /\ mowner[m] = u
        /\ pc[u] = "rel"
        /\ op[u].kind = "none"

\* C6: wait returns holding the mutex.  Whenever cv::wait on m reaches its
\* normal return, and until the caller is back in its own code, m's owner
\* field is the caller's id and m is not free; this covers a waiter woken by
\* signal or by broadcast, one that found m free when it resumed, and one that
\* found it busy, blocked again on m's waitlist and was handed m.
C6_WaitReturnsHolding ==
    /\ [](\A t \in Threads :
            (op[t].kind = "relock" /\ pc[t] \in {"rel", "unmask"}) =>
                mowner[op[t].m] = t /\ ~mfree[op[t].m])
    /\ [][\A t \in Threads :
            (op[t].kind \in {"wait", "relock"} /\ pc[t] # "rel" /\ pc'[t] = "rel") =>
                /\ mowner'[op[t].m] = t
                /\ ~mfree'[op[t].m]
                /\ op'[t].kind = "relock"
                /\ op'[t].m = op[t].m]_vars

\* Two waiters were woken: one is returning from wait as the owner of the
\* mutex; the other found the mutex busy when it resumed and is blocked again
\* on the mutex's waitlist.
C6_Witness ==
    \E t \in Threads, u \in Threads :
        /\ t # u
        /\ op[t].kind = "relock"
        /\ pc[t] = "rel"
        /\ mowner[op[t].m] = t
        /\ op[u].kind = "relock"
        /\ u \in Range(mwaiting[op[u].m])
        /\ op[u].m = op[t].m

\* C7: signal.  A signal on a cv with waiters removes exactly the head of its
\* waitlist, makes it READY and appends it to the ready queue, and leaves the
\* other waiters in their order, the ready queue ahead of it, every other
\* thread's status and every other waitlist as they were.  A signal on a cv
\* without waiters changes no status, no queue and nothing else a later wait
\* reads: it only takes the caller through the call.
C7_Signal ==
    [][\A c \in CPUs, cvar \in Cvs :
          Signal(c, cvar) =>
              IF cvwaiting[cvar] # <<>>
              THEN \E w \in Threads :
                      /\ w = Head(cvwaiting[cvar])
                      /\ status[w] = "BLOCKED"
                      /\ cvwaiting' = [cvwaiting EXCEPT ![cvar] = Tail(cvwaiting[cvar])]
                      /\ status' = [status EXCEPT ![w] = "READY"]
                      /\ ready_threads' = Append(ready_threads, w)
                      /\ w \notin Range(cvwaiting'[cvar])
                      /\ UNCHANGED <<mwaiting, join_q, mfree, mowner, curr>>
              ELSE UNCHANGED <<cvwaiting, status, ready_threads, mwaiting, join_q,
                               sleeping_cpus, ipi, mfree, mowner, curr,
                               finished_threads, border, failed>>]_vars

\* A signal has just woken the head of a waitlist of two: the signalling
\* thread is still inside the call, the woken thread is READY on the ready
\* queue, the other waiter remains on the waitlist.
C7_Witness ==
    \E c \in CPUs, t \in Threads, u \in Threads, cvar \in Cvs :
        /\ OnThread(c, "rel")
        /\ op[curr[c]].kind = "none"
        /\ curr[c] \notin {t, u}
        /\ op[t].kind = "wait"
        /\ op[t].c = cvar
        /\ status[t] = "READY"
        /\ ready_threads = <<t>>
        /\ op[u].kind = "wait"
        /\ status[u] = "BLOCKED"
        /\ cvwaiting[cvar] = <<u>>

\* Thread t is at the normal return of cv::wait.
ReturnsFromWait(t) == op[t].kind = "relock" /\ pc[t] = "rel"

C9_Join ==
    /\ [](\A t \in Threads, u \in Threads :
            /\ t \in Range(join_q[u]) =>
                  /\ status[t] = "BLOCKED"
                  /\ status[u] # "FINISHED"
                  /\ op[t].kind = "join" /\ op[t].u = u
            /\ (op[t].kind = "join" /\ op[t].u = u /\ t \notin Range(join_q[u])) =>
                  /\ status[u] = "FINISHED"
                  /\ status[t] \in {"READY", "RUNNING"})
    /\ [][/\ \A c \in CPUs, u \in Threads :
               Join(c, u) =>
                   IF status[u] = "FINISHED"
                   THEN /\ pc'[curr[c]] = "rel"
                        /\ status' = status
                        /\ UNCHANGED <<curr, ready_threads, join_q, mwaiting, cvwaiting,
                                       sleeping_cpus, finished_threads>>
                   ELSE /\ status'[curr[c]] = "BLOCKED"
                        /\ join_q' = [join_q EXCEPT ![u] = Append(join_q[u], curr[c])]
                        /\ pc'[curr[c]] \in {"gnt", "susp"}
                        /\ curr'[c] # curr[c]
          /\ \A t \in Threads :
               (op[t].kind = "join" /\ pc[t] # "rel" /\ pc'[t] = "rel") =>
                   /\ status'[op[t].u] = "FINISHED"
                   /\ op[t].u \in Range(finished_threads')
                   /\ t \notin Range(finished_threads')
          /\ \A u \in Threads : status[u] = "FINISHED" => status'[u] = "FINISHED"
          /\ \/ finished_threads' = finished_threads
             \/ \E t \in Threads :
                   /\ t \notin Range(finished_threads)
                   /\ finished_threads' = Append(finished_threads, t)]_vars

\* The chain main joins T1, T1 joins T2 after T2 finished: T1 was woken and
\* is still inside join, main is still blocked on T1's join waitlist.
C9_Witness ==
    \E t1 \in Threads, t2 \in Threads :
        /\ t1 # FirstThread /\ t2 # FirstThread /\ t1 # t2
        /\ finished_threads = <<t2>>
        /\ op[t1].kind = "join" /\ op[t1].u = t2
        /\ status[t1] \in {"READY", "RUNNING"}
        /\ pc[t1] \in {"gnt", "susp"}
        /\ join_q[t1] = <<FirstThread>>
        /\ status[FirstThread] = "BLOCKED"

\* Thread t is inside a join on u that had to block.
InJoin(t, u) == op[t].kind = "join" /\ op[t].u = u

\* C10: join liveness.  Once the target u of a blocked join of t is FINISHED,
\* t is off u's join waitlist and READY (or already switched in); and if u
\* eventually finishes, t eventually returns from join, under fair scheduling
\* of the CPUs.  This holds for every joiner t of every thread u, whichever
\* of the join call and u's termination, on the same or on another CPU, gets
\* the guard first.
C10_JoinLiveness ==
    /\ [](\A t \in Threads, u \in Threads :
            (InJoin(t, u) /\ status[u] = "FINISHED") =>
                /\ status[t] \in {"READY", "RUNNING"}
                /\ t \notin Range(join_q[u])
                /\ status[t] = "READY" => t \in Range(ready_threads))
    /\ \A t \in Threads, u \in Threads :
          [](InJoin(t, u) => (<>(status[u] = "FINISHED") => <>(~InJoin(t, u))))

\* Two joiners of one thread: both were blocked on its join waitlist, it
\* finished on one CPU, and both joiners are woken and still inside join.
C10_Witness ==
    \E t \in Threads, v \in Threads, u \in Threads :
        /\ t # v /\ t # u /\ v # u
        /\ InJoin(t, u)
        /\ InJoin(v, u)
        /\ status[u] = "FINISHED"
        /\ pc[t] \in {"gnt", "susp"}
        /\ pc[v] \in {"gnt", "susp"}

\* C11: thread::yield().  With an empty ready queue the call returns with the
\* caller still RUNNING on its CPU, and the ready queue, the idle-CPU queue,
\* every waitlist and every status are unchanged.  With a non-empty ready queue
\* the head of the queue becomes the CPU's current thread, RUNNING, and the
\* caller becomes READY at the tail of the queue, behind every thread that was
\* ready already.
C11_Yield ==
    [][\A c \in CPUs : Yield(c) =>
          LET t == curr[c]
          IN  IF ready_threads = <<>>
              THEN /\ curr'[c] = t
                   /\ status' = status
                   /\ status[t] = "RUNNING"
                   /\ pc'[t] = "rel"
                   /\ UNCHANGED <<ready_threads, sleeping_cpus, mwaiting, cvwaiting,
                                  join_q, ipi>>
              ELSE /\ curr'[c] = Head(ready_threads)
                   /\ status'[Head(ready_threads)] = "RUNNING"
                   /\ status'[t] = "READY"
                   /\ ready_threads' = Append(Tail(ready_threads), t)
                   /\ \A x \in TCBs \ {t, Head(ready_threads)} : status'[x] = status[x]
                   /\ UNCHANGED <<mwaiting, cvwaiting, join_q>>]_vars

\* A thread has just yielded with two threads on the ready queue: the first of
\* them runs on its CPU, and the caller is READY behind the second.
C11_Witness ==
    \E c \in CPUs, t \in Threads :
        /\ guard
        /\ pc[t] = "ysw"
        /\ status[t] = "READY"
        /\ Len(ready_threads) = 2
        /\ ready_threads[2] = t
        /\ curr[c] \in Threads \ {t}
        /\ pc[curr[c]] \in {"fresh", "gnt", "susp", "ysw"}
        /\ status[curr[c]] = "RUNNING"

\* C12: the mutex owner invariant.  Whenever the guard is released, the owner
\* field of every mutex is the id of the thread that holds the mutex, and is
\* the unowned sentinel -1 whenever no thread holds it, in particular after an
\* unlock() that found the waitlist empty.
C12_OwnerInvariant ==
    ~guard =>
        \A m \in Mutexes :
            /\ \A t \in Holders(m) : mowner[m] = t
            /\ ~mfree[m] => mowner[m] \in Threads
            /\ mfree[m] => mowner[m] = NoOwner

\* A thread has returned from an unlock() that found the waitlist empty: the
\* mutex is free, nobody holds it, and the guard is released.
C12_Witness ==
    \E t \in Threads, m \in Mutexes :
        /\ ~guard
        /\ mfree[m]
        /\ Holders(m) = {}
        /\ mwaiting[m] = <<>>
        /\ mowner[m] = t
        /\ pc[t] = "user"

\* C13: whenever the guard is released, the RUNNING TCBs are exactly the user
\* TCBs in the current-thread slots of the CPUs: every RUNNING TCB is the
\* current thread of some CPU, every CPU whose current thread is a user TCB has
\* it RUNNING, and no TCB is the current thread of two CPUs, so each CPU has at
\* most one RUNNING TCB.
C13_RunningIsCurrent ==
    ~guard =>
        /\ \A x \in TCBs : status[x] = "RUNNING" => \E c \in CPUs : curr[c] = x
        /\ \A c \in CPUs : curr[c] \in Threads => status[curr[c]] = "RUNNING"
        /\ \A c \in CPUs, d \in CPUs : (c # d /\ curr[c] # NoTCB) => curr[c] # curr[d]
        /\ \A c \in CPUs : Cardinality({x \in TCBs : status[x] = "RUNNING" /\ curr[c] = x}) <= 1

\* Both CPUs run a user thread, one of them switched in by get_next_thread
\* after its caller blocked, while a third thread is READY and the guard is
\* released.
C13_Witness ==
    /\ ~guard
    /\ \A c \in CPUs : curr[c] \in Threads /\ status[curr[c]] = "RUNNING"
    /\ \E t \in Threads : status[t] = "BLOCKED" /\ pc[t] = "gnt"

\* The TCBs on some waitlist: of a mutex, of a cv, or the join waitlist of a
\* thread.
OnWaitlist ==
    UNION ({Range(mwaiting[m]) : m \in Mutexes}
           \cup {Range(cvwaiting[cvar]) : cvar \in Cvs}
           \cup {Range(join_q[u]) : u \in Threads})

\* C14: status/queue correspondence.  Whenever the guard is released, a TCB is
\* READY if and only if it is on the ready queue, BLOCKED if and only if it is
\* on some waitlist (a mutex's, a cv's or a thread's join waitlist), and
\* FINISHED if and only if it is on the finished list.
C14_StatusQueue ==
    ~guard =>
        \A x \in TCBs :
            /\ status[x] = "READY" <=> x \in Range(ready_threads)
            /\ status[x] = "BLOCKED" <=> x \in OnWaitlist
            /\ status[x] = "FINISHED" <=> x \in Range(finished_threads)

\* With the guard released one thread is READY on the ready queue, one is
\* BLOCKED on a cv waitlist, and the third runs in user code.
C14_Witness ==
    /\ ~guard
    /\ \E t \in Threads : ready_threads = <<t>> /\ status[t] = "READY"
    /\ \E cvar \in Cvs, t \in Threads : cvwaiting[cvar] = <<t>> /\ status[t] = "BLOCKED"
    /\ \E t \in Threads : status[t] = "RUNNING" /\ pc[t] = "user"

\* No element occurs twice in sequence s.
NoDuplicates(s) == \A i \in 1..Len(s), j \in 1..Len(s) : s[i] = s[j] => i = j

\* C15: after any sequence of creations, yields, preemptions, lock/unlock,
\* wait/signal/broadcast, joins and terminations no TCB occurs twice in the
\* ready queue, in a mutex waitlist or in a cv waitlist, and the assertions of
\* push_to_queue (the pushed TCB is not FINISHED, not READY already, and is
\* RUNNING, BLOCKED or new) never fail.
C15_NoDuplicates ==
    /\ NoDuplicates(ready_threads)
    /\ \A m \in Mutexes : NoDuplicates(mwaiting[m])
    /\ \A cvar \in Cvs : NoDuplicates(cvwaiting[cvar])
    /\ failed \notin {"push_to_queue: FINISHED thread",
                      "push_to_queue: thread already READY",
                      "push_to_queue: bad status"}

\* A broadcast has just moved two waiters from a cv waitlist to the ready
\* queue.
C15_Witness ==
    \E cvar \in Cvs, t \in Threads :
        /\ guard
        /\ pc[t] = "rel"
        /\ status[t] = "RUNNING"
        /\ Len(border[cvar]) = 2
        /\ cvwaiting[cvar] = <<>>
        /\ Range(border[cvar]) \subseteq Range(ready_threads)

\* The position of x in sequence s (0 when x is not in s).
Position(s, x) == IF x \in Range(s) THEN CHOOSE i \in 1..Len(s) : s[i] = x ELSE 0

\* Thread x is dispatched by the step: it becomes RUNNING as the current
\* thread of a CPU that ran another TCB.
Dispatched(x) ==
    /\ status'[x] = "RUNNING"
    /\ \E c \in CPUs : curr[c] # x /\ curr'[c] = x

\* C16: the ready queue is FIFO.  If a is enqueued before b then a is
\* dispatched (removed and set RUNNING on some CPU) before b, on every
\* dispatch path and for any number of CPUs: a step removes from the queue
\* nothing but its head, which it dispatches; it keeps the order of the
\* threads that stay; and it puts the threads it enqueues behind every thread
\* that was on the queue.
C16_ReadyFifo ==
    [][/\ \A a \in Range(ready_threads) :
             a \notin Range(ready_threads') =>
                 /\ a = Head(ready_threads)
                 /\ Dispatched(a)
       /\ \A a \in Range(ready_threads), b \in Range(ready_threads) :
             (b \in Range(ready_threads') /\ Position(ready_threads, a) < Position(ready_threads, b)) =>
                 \/ a \notin Range(ready_threads')
                 \/ Position(ready_threads', a) < Position(ready_threads', b)
       /\ \A a \in Range(ready_threads), b \in Range(ready_threads') :
             (b \notin Range(ready_threads) /\ a \in Range(ready_threads')) =>
                 Position(ready_threads', a) < Position(ready_threads', b)
       /\ \A x \in Threads :
             (status[x] = "READY" /\ status'[x] # "READY") =>
                 /\ x = Head(ready_threads)
                 /\ Dispatched(x)]_vars

\* A CPU on its idle path (begin_process or the IPI handler) has just
\* dispatched the older of two threads on the ready queue; the younger one is
\* now at the head.
C16_Witness ==
    \E c \in CPUs, a \in Threads, b \in Threads :
        /\ guard
        /\ curr[c] = a
        /\ pc[SuspendedThread(c)] = "ih_top"
        /\ status[a] = "RUNNING"
        /\ pc[a] \in {"fresh", "gnt", "susp", "ysw"}
        /\ a < b
        /\ pc[b] = "fresh"
        /\ ready_threads = <<b>>
        /\ \A d \in CPUs \ {c} : ~HoldsGuard(d)

\* C17: mutex waiters are served FIFO.  If a blocks in lock() on m before b
\* does, a becomes the owner of m before b; and no thread that calls lock()
\* later acquires m ahead of a thread already on m's waitlist while m stays
\* held.  A step changes the waitlist of m only by putting the caller of a
\* blocking internal_lock at its back or by removing its head, which becomes
\* the owner; and while a thread waits, the owner changes to nobody but the
\* head of the waitlist.
C17_MutexFifo ==
    [][\A m \in Mutexes :
          /\ \/ mwaiting'[m] = mwaiting[m]
             \/ \E c \in CPUs :
                   /\ curr[c] \in Threads
                   /\ curr[c] \notin Range(mwaiting[m])
                   /\ ~mfree[m]
                   /\ mwaiting'[m] = Append(mwaiting[m], curr[c])
                   /\ mowner'[m] = mowner[m]
                   /\ status'[curr[c]] = "BLOCKED"
             \/ /\ mwaiting[m] # <<>>
                /\ mwaiting'[m] = Tail(mwaiting[m])
                /\ mowner'[m] = Head(mwaiting[m])
                /\ ~mfree'[m]
          /\ (mwaiting[m] # <<>> /\ mowner'[m] # mowner[m]) =>
                mowner'[m] = Head(mwaiting[m])
          /\ mwaiting[m] # <<>> => ~mfree[m] /\ ~mfree'[m]]_vars

\* A thread inside cv::wait has just released m with two threads on m's
\* waitlist: the one that blocked first is the owner and READY, the other one
\* is still waiting.
C17_Witness ==
    \E t \in Threads, a \in Threads, b \in Threads, m \in Mutexes :
        /\ guard
        /\ pc[t] = "w2"
        /\ op[t].m = m
        /\ mowner[m] = a
        /\ a # t
        /\ HandedOff(a, m)
        /\ status[a] = "READY"
        /\ mwaiting[m] = <<b>>
        /\ status[b] = "BLOCKED"

\* The first n items the producer puts: 0, 1, ..
Items(n) == [i \in 1..n |-> i - 1]

\* The producer and the consumer: the threads the first thread creates.
Producer == FirstThread + 1
Consumer == FirstThread + 2

\* C18: the bounded-buffer producer/consumer.  With one producer and one
\* consumer around a bounded buffer protected by one mutex and two cvs, each
\* wait re-checked in a loop, on all CPUs and with any timer preemptions: what
\* the consumer has taken followed by what is in the buffer is exactly what
\* the producer has put, in production order, and the buffer never exceeds
\* its capacity; no reachable state is a deadlock (while a thread is
\* unfinished some step is possible); and both threads eventually are
\* FINISHED, the consumer having taken every item in order.
C18_ProducerConsumer ==
    /\ [](/\ consumed \o buffer = Items(produced)
          /\ Len(buffer) <= BufCap
          /\ produced <= NumItems
          /\ failed = "")
    /\ []((\E t \in {FirstThread, Producer, Consumer} : status[t] # "FINISHED")
             => ENABLED BufferNext)
    /\ <>(/\ status[Producer] = "FINISHED"
          /\ status[Consumer] = "FINISHED"
          /\ consumed = Items(NumItems))

\* The producer is blocked in wait(NotFull) with the buffer full, after the
\* consumer blocked in wait(NotEmpty) and was woken by the producer's signal.
C18_Witness ==
    /\ Len(buffer) = BufCap
    /\ cvwaiting[NotFull] = <<Producer>>
    /\ status[Producer] = "BLOCKED"
    /\ op[Consumer].kind \in {"wait", "relock"}
    /\ status[Consumer] \in {"READY", "RUNNING"}
    /\ cvwaiting[NotEmpty] = <<>>

\* Every user thread that was created has reached FINISHED.
AllFinished ==
    /\ status[FirstThread] = "FINISHED"
    /\ \A t \in Threads : status[t] \in {"none", "FINISHED"}

\* CPU c is suspended on its idle TCB and registered on the idle-CPU queue.
Suspended(c) ==
    /\ curr[c] = SuspendedThread(c)
    /\ pc[SuspendedThread(c)] = "asleep"
    /\ ints[c]
    /\ c \in Range(sleeping_cpus)

Quiescent ==
    /\ \A c \in CPUs : Suspended(c)
    /\ ready_threads = <<>>
    /\ ~guard

Edge(a, b) ==
    \/ a \in {"none", "Null"} /\ b = "READY"
    \/ a = "READY" /\ b = "RUNNING"
    \/ a = "RUNNING" /\ b \in {"READY", "BLOCKED", "FINISHED"}
    \/ a = "BLOCKED" /\ b = "READY"

\* C20: every change of a TCB's status follows a listed edge: new to READY
\* (creation), READY to RUNNING (dispatch from the head of the ready queue),
\* RUNNING to READY (yield or preemption), RUNNING to BLOCKED, BLOCKED to
\* READY (wake-up), RUNNING to FINISHED.  Where one guarded section makes a
\* thread READY and dispatches it (the first thread at boot, a joiner woken
\* by an exit), both edges are taken in one step.  FINISHED is terminal: a
\* FINISHED thread never changes status and is on no queue but the finished
\* list.
C20_StatusEdges ==
    /\ [][\A x \in Threads :
             status'[x] # status[x] =>
                 \/ /\ Edge(status[x], status'[x])
                    /\ status'[x] = "RUNNING" => x = Head(ready_threads) /\ Dispatched(x)
                    /\ status'[x] = "READY" => x \in Range(ready_threads')
                 \/ /\ Edge(status[x], "READY")
                    /\ status'[x] = "RUNNING"
                    /\ x \notin Range(ready_threads)
                    /\ Dispatched(x)]_vars
    /\ [][\A c \in CPUs :
             status'[SuspendedThread(c)] # status[SuspendedThread(c)] =>
                 status[SuspendedThread(c)] = "none" /\ status'[SuspendedThread(c)] = "Null"]_vars
    /\ [][\A x \in TCBs : status[x] = "FINISHED" => status'[x] = "FINISHED"]_vars
    /\ [](\A x \in TCBs :
             status[x] = "FINISHED" => x \notin Range(ready_threads) /\ x \notin OnWaitlist)

\* A thread has finished after waking a joiner, while another thread that was
\* preempted is READY: all six edges have been taken.
C20_Witness ==
    \E t \in Threads, u \in Threads, w \in Threads :
        /\ status[t] = "FINISHED"
        /\ op[u].kind = "join"
        /\ op[u].u = t
        /\ status[u] \in {"READY", "RUNNING"}
        /\ status[w] = "READY"
        /\ pc[w] = "ysw"
        /\ w # u

\* The state the guard protects: the queues, the waitlists, the finished
\* list, the statuses, the mutex and cv fields and the current-thread slots
\* (a change of a slot is a context switch).
GuardedState ==
    <<ready_threads, sleeping_cpus, mwaiting, cvwaiting, join_q, finished_threads,
      status, mfree, mowner, curr>>

\* C21: the switch invariant.  Every context switch and every mutation of the
\* ready queue, the idle-CPU queue, a waitlist, the finished list, a status or
\* a mutex or cv field is made by a CPU that holds the guard with its
\* interrupts masked: the guard is held by exactly one CPU whenever it is
\* set, that CPU's interrupts are masked, and a step that changes the guarded
\* state is a step of the CPU that holds the guard at its end, masked before
\* and after.  The context that resumes after a switch holds the guard, and
\* the guard is released only by the CPU that holds it, so exactly once per
\* acquisition.
C21_SwitchInvariant ==
    /\ [](/\ \A c \in CPUs : HoldsGuard(c) =>
                /\ guard
                /\ ~ints[c]
                /\ \A d \in CPUs \ {c} : ~HoldsGuard(d)
          /\ guard => \E c \in CPUs : HoldsGuard(c))
    /\ [][GuardedState' # GuardedState =>
             /\ guard'
             /\ \E c \in CPUs :
                   /\ HoldsGuard(c)'
                   /\ ~ints[c] /\ ~ints'[c]
                   /\ \A d \in CPUs \ {c} : curr'[d] = curr[d] /\ ~HoldsGuard(d)]_vars
    /\ [][\A c \in CPUs :
             /\ curr'[c] # curr[c] =>
                   /\ HoldsGuard(c)'
                   /\ pc'[curr'[c]] \in {"fresh", "gnt", "susp", "ysw", "ih_top"}
             /\ (Release(c) \/ ThreadStart(c) \/ IdleRelease(c)) => guard /\ HoldsGuard(c)]_vars
    /\ [][(guard /\ ~guard') =>
             \E c \in CPUs : HoldsGuard(c) /\ ~HoldsGuard(c)' /\ curr'[c] = curr[c]]_vars

\* A thread that blocked in get_next_thread has just been switched in again
\* by a CPU: it holds the guard with interrupts masked while the other CPU
\* spins in guard_acquire.
C21_Witness ==
    \E c \in CPUs, d \in CPUs :
        /\ c # d
        /\ guard
        /\ curr[c] \in Threads
        /\ pc[curr[c]] = "gnt"
        /\ status[curr[c]] = "RUNNING"
        /\ ~ints[c]
        /\ curr[d] \in Threads
        /\ pc[curr[d]] = "acq"

\* CPU c is inside guard_acquire, spinning on the guard: in the cpu
\* constructor, in a kernel_guard constructor, in the user_guard destructor or
\* in ipi_handler.
Spinning(c) ==
    \/ cpu_pc[c] = "boot"
    \/ curr[c] # NoTCB /\ pc[curr[c]] \in {"acq", "acq_yield", "ipi_acq"}

\* CPU c is between guard_release and the interrupt_enable that follows it.
Released(c) == curr[c] # NoTCB /\ pc[curr[c]] \in {"unmask", "ih_susp"}

\* C22: gate ordering.  On every path a CPU masks its interrupts before it
\* acquires the guard and releases the guard before it unmasks: no CPU holds
\* the guard with its interrupts enabled.  So no timer or IPI handler starts
\* on a CPU that holds the guard, and interrupts are disabled wherever
\* guard_acquire and guard_release assert it: while a CPU spins on the guard,
\* while it holds it, and when it has just released it.
C22_GateOrdering ==
    /\ [](\A c \in CPUs : (HoldsGuard(c) \/ Spinning(c) \/ Released(c)) => ~ints[c])
    /\ [][\A c \in CPUs :
             /\ (~HoldsGuard(c) /\ HoldsGuard(c)') => ~ints[c] /\ ~ints'[c]
             /\ (~ints[c] /\ ints'[c]) => ~HoldsGuard(c) /\ ~HoldsGuard(c)' /\ guard' = guard
             /\ (IpiDeliver(c) \/ InterruptDisable(c)) =>
                   ints[c] /\ ~HoldsGuard(c) /\ ~ints'[c]
             /\ Timer(c) => ~HoldsGuard(c) /\ ~ints[c]]_vars

\* One CPU holds the guard inside a call with its interrupts masked, the
\* other one has released the guard and has not unmasked yet.
C22_Witness ==
    \E c \in CPUs, d \in CPUs :
        /\ HoldsGuard(c)
        /\ curr[c] \in Threads
        /\ pc[curr[c]] = "rel"
        /\ ~ints[c]
        /\ curr[d] \in Threads
        /\ pc[curr[d]] = "unmask"
        /\ ~ints[d]

Pushed ==
    {x \in Threads : x \notin Range(ready_threads)
                     /\ (x \in Range(ready_threads') \/ Dispatched(x))}

\* The CPUs that the step wakes: one sleeper, from the head of the idle-CPU
\* queue, for every pushed thread, as long as there are sleepers.
Woken ==
    LET n == IF Cardinality(Pushed) < Len(sleeping_cpus)
             THEN Cardinality(Pushed) ELSE Len(sleeping_cpus)
    IN  SubSeq(sleeping_cpus, 1, n)

\* C24: every operation that makes a TCB runnable (creation, yield, mutex
\* handoff, signal, broadcast, waking joiners) goes through push_to_queue: the
\* TCB becomes READY at the tail of the ready queue, and for each push the
\* head of the idle-CPU queue, if there is one, is removed and sent exactly
\* one IPI; with an empty idle-CPU queue no IPI is sent and nothing else
\* changes.  A step that pushes nothing sends no IPI and removes no CPU from
\* the idle-CPU queue.
C24_PushToQueue ==
    [][/\ \A x \in Threads :
             (status'[x] = "READY" /\ status[x] # "READY") =>
                 /\ x \in Pushed
                 /\ x \in Range(ready_threads')
                 /\ \A a \in Range(ready_threads) \cap Range(ready_threads') :
                       Position(ready_threads', a) < Position(ready_threads', x)
       /\ \A x \in Pushed :
             /\ status[x] \in {"none", "RUNNING", "BLOCKED"}
             /\ status'[x] \in {"READY", "RUNNING"}
       /\ sleeping_cpus' = SubSeq(sleeping_cpus, Len(Woken) + 1, Len(sleeping_cpus))
             \/ (Pushed = {} /\ \E c \in CPUs : sleeping_cpus' = Append(sleeping_cpus, c))
       /\ \A c \in CPUs :
             /\ c \in Range(Woken) => ~ipi[c] /\ ipi'[c]
             /\ (c \notin Range(Woken) /\ ipi'[c]) => ipi[c]]_vars

\* A thread has just created a thread while the other CPU was suspended on
\* the idle-CPU queue: the new thread is READY on the ready queue, the CPU is
\* off the queue and has one IPI pending.
C24_Witness ==
    \E t \in Threads, n \in Threads, d \in CPUs :
        /\ guard
        /\ pc[t] = "rel"
        /\ status[t] = "RUNNING"
        /\ ready_threads = <<n>>
        /\ pc[n] = "fresh"
        /\ status[n] = "READY"
        /\ sleeping_cpus = <<>>
        /\ ipi[d]
        /\ pc[SuspendedThread(d)] = "asleep"

\* CPU c is on its idle TCB at the given place of suspend_helper/ipi_handler.
IdleAt(c, label) == curr[c] = SuspendedThread(c) /\ pc[SuspendedThread(c)] = label

Sweeping(c, t) == curr[c] = t /\ t \in Threads /\ pc[t] \in {"gnt", "ysw"}

\* C26: when a thread that resumed after the context switch in yield() or
\* get_next_thread() has swept the finished list, the list holds no
\* terminated TCB other than the sweeping thread.
C26_SweepEmpties ==
    [][\A c \in CPUs, t \in Threads :
          (Sweeping(c, t) /\ pc'[t] # pc[t]) =>
              \A i \in 1..Len(finished_threads') : finished_threads'[i] = t]_vars

\* A thread resumed after the context switch in yield() or get_next_thread()
\* is about to sweep a finished list that holds a terminated thread.
C26_Witness ==
    \E c \in CPUs, t \in Threads :
        /\ Sweeping(c, t)
        /\ guard
        /\ finished_threads # <<>>
        /\ \A i \in 1..Len(finished_threads) :
              finished_threads[i] # t /\ status[finished_threads[i]] = "FINISHED"

\* C27: the step in which the body of thread t has returned, taken under the
\* guard by the CPU that runs t: the joiners of t go to the tail of the ready
\* queue in the order in which they joined, t is FINISHED and appended to the
\* finished list, and the CPU dispatches the head of the resulting ready
\* queue, or goes to its idle TCB when that queue is empty.  From then on t
\* stays FINISHED, at the end of the trampoline, and is the current thread of
\* no CPU.
C27_Termination ==
    /\ [](\A t \in Threads : status[t] = "FINISHED" =>
              /\ pc[t] = "done"
              /\ \A c \in CPUs : curr[c] # t
              /\ t \notin Range(ready_threads)
              /\ t \in Range(finished_threads)
              /\ join_q[t] = <<>>)
    /\ [][\A t \in Threads :
            /\ status[t] = "FINISHED" =>
                  status'[t] = "FINISHED" /\ pc'[t] = "done" /\ \A c \in CPUs : curr'[c] # t
            /\ (status[t] # "FINISHED" /\ status'[t] = "FINISHED") =>
                  \E c \in CPUs :
                      LET full == ready_threads \o join_q[t]
                      IN  /\ curr[c] = t
                          /\ status[t] = "RUNNING"
                          /\ ~guard /\ guard'
                          /\ \A j \in Range(join_q[t]) :
                                status[j] = "BLOCKED" /\ status'[j] \in {"READY", "RUNNING"}
                          /\ join_q'[t] = <<>>
                          /\ finished_threads' = Append(finished_threads, t)
                          /\ IF full = <<>>
                             THEN /\ curr'[c] = SuspendedThread(c)
                                  /\ pc'[SuspendedThread(c)] = "ih_top"
                                  /\ ready_threads' = <<>>
                             ELSE /\ curr'[c] = Head(full)
                                  /\ status'[Head(full)] = "RUNNING"
                                  /\ ready_threads' = Tail(full)
                                  /\ \A i \in 1..Len(ready_threads') :
                                        status'[ready_threads'[i]] = "READY"]_vars

\* A thread that blocked in join() on thread t has been made runnable by the
\* termination of t, which is FINISHED and on the finished list; the guard of
\* that step is still held.
C27_Witness ==
    \E t \in Threads, j \in Threads :
        /\ status[t] = "FINISHED"
        /\ t \in Range(finished_threads)
        /\ pc[t] = "done"
        /\ op[j].kind = "join"
        /\ op[j].u = t
        /\ pc[j] \in {"gnt", "susp"}
        /\ status[j] \in {"READY", "RUNNING"}
        /\ guard

\* The CPUs with an IPI sent to them and not yet handled: pending, or
\* delivered to a handler that has not yet looked at the ready queue.
Signalled == {c \in CPUs : ipi[c] \/ IdleAt(c, "ipi_acq") \/ IdleAt(c, "ipi_body")}

\* The threads with status READY.
ReadyThreads == {t \in Threads : status[t] = "READY"}

\* C28: no wake-up of a CPU is lost.  With the guard released, a non-empty
\* ready queue means that some CPU runs a user thread or has an IPI pending,
\* and a non-empty idle-CPU queue means that there are at most as many READY
\* threads as IPIs sent and not yet handled.  In no state is a thread READY
\* while every CPU is on the idle-CPU queue with no IPI pending.
C28_NoLostWakeup ==
    /\ ~guard =>
          /\ ready_threads # <<>> => \E c \in CPUs : curr[c] \in Threads \/ ipi[c]
          /\ sleeping_cpus # <<>> => Cardinality(ReadyThreads) <= Cardinality(Signalled)
    /\ ~(/\ ReadyThreads # {}
         /\ \A c \in CPUs : c \in Range(sleeping_cpus) /\ ~ipi[c])

\* With the guard released a thread is READY on the ready queue, a suspended
\* CPU has been taken off the idle-CPU queue and has the IPI for it pending,
\* and the other CPU runs a user thread.
C28_Witness ==
    \E c, d \in CPUs :
        /\ c # d
        /\ ~guard
        /\ ready_threads # <<>>
        /\ ReadyThreads # {}
        /\ ipi[c]
        /\ IdleAt(c, "asleep")
        /\ c \notin Range(sleeping_cpus)
        /\ curr[d] \in Threads

\* The places at which a context that is not running was saved (or made).
SavedContext == {"fresh", "gnt", "susp", "ysw"}

\* C29: no user TCB is the current thread of two CPUs, and a CPU dispatches a
\* TCB only when no CPU has it as current thread and its context is saved:
\* the CPU it ran on has completed its switch away from it (the first thread
\* is constructed by the step of the boot CPU that dispatches it).  A TCB that
\* is READY, on the ready queue, is in that condition in every state.
C29_OneCpuPerThread ==
    /\ [](\A c, d \in CPUs : (c # d /\ curr[c] \in Threads) => curr[c] # curr[d])
    /\ [](\A x \in Threads : (status[x] = "READY" \/ x \in Range(ready_threads)) =>
              /\ pc[x] \in SavedContext
              /\ \A c \in CPUs : curr[c] # x)
    /\ [][\A x \in Threads : Dispatched(x) =>
              /\ \A c \in CPUs : curr[c] # x
              /\ pc[x] \in SavedContext \/ status[x] = "none"
              /\ pc'[x] \in SavedContext]_vars

\* A thread whose context was saved by the switch in yield() has been
\* dispatched and is the current thread of one CPU, about to go on from that
\* switch, while the other CPU runs another thread.
C29_Witness ==
    \E c, d \in CPUs, x, y \in Threads :
        /\ c # d
        /\ x # y
        /\ curr[d] = x
        /\ pc[x] = "ysw"
        /\ status[x] = "RUNNING"
        /\ guard
        /\ curr[c] = y
        /\ status[y] = "RUNNING"

====
